---- MODULE Spec2Model ----
(***************************************************************************)
(* A model of the query-language builder (search/ql.py: FilterExpr, Q,     *)
(* Query) and of the execution shell (query.py: SearchQuery).              *)
(*                                                                         *)
(* Python objects live on heaps (sequences indexed by object identity), so *)
(* that aliasing and in-place mutation are visible: `qheap` holds the Q    *)
(* nodes, `queries` the ql.Query objects, `sqs` the SearchQuery objects.   *)
(* Strings are TLA+ strings; formatting and cleaning work on characters.   *)
(*                                                                         *)
(* Further parts: the field conversions (search/fields.py), documents and  *)
(* Index.purge (search/indexes.py), and of search/django the indexing flag *)
(* with its context managers and the string rank (utils.py), the registry  *)
(* (registry.py) and the deferred tasks (tasks.py).                        *)
(***************************************************************************)
EXTENDS Integers, Sequences, FiniteSets, TLC

VARIABLES
    qheap,      \* heap of Q objects: id -> [kwargs, children, conn, inverted]
    queries,    \* heap of ql.Query objects: id -> [gathered, keywords]
    sqs,        \* heap of SearchQuery objects
    index,      \* the platform's index: the matching documents, in result order
    searches,   \* number of index.search calls issued so far
    lastSearch, \* the options of the last index.search call
    ret,        \* what the last call returned or raised
    field,      \* a Field object and the values last converted by it
    doc,        \* a document object: its class's fields and its instance dict
    settings,   \* django settings: SEARCH_INDEXING_ENABLED_BY_DEFAULT
    status,     \* utils.status, thread-local: thread -> its _is_enabled attribute
    managers,   \* the module's disable_indexing and enable_indexing objects
    scopes,     \* thread -> the `with` blocks it is inside, innermost last
    exited,     \* thread -> the block it left last, with what it observed
    registry,   \* registry.registry: model class -> its (index_name, document_class, rank)
    documents,  \* the ids of the documents held by the platform index of a model
    datastore,  \* the primary keys of the model's entities
    deferred,   \* the deferred tasks not yet run
    running,    \* the task invocations that have deferred their follow-up
    purging,    \* a call of Index.purge: its position and its doc_ids
    fetched     \* what the task invocations fetched so far

\* the indexing flag of search.django.utils and the blocks that switch it
flag == <<settings, status, managers, scopes, exited>>

\* the state of search.django
\* the platform index behind Index, and the work that empties or cleans it
batch == <<documents, datastore, deferred, running, purging, fetched>>

django == <<flag, registry, batch>>

\* the state of the core library
core == <<qheap, queries, sqs, index, searches, lastSearch, ret, field, doc>>

vars == <<qheap, queries, sqs, index, searches, lastSearch, ret, field, doc, django>>

\* no Field object and no document object made yet
NoField == <<>>
NoDocument == <<>>

-----------------------------------------------------------------------------
(* search.django: the state of a process that has just imported it *)

MaxThreads == 2
Threads == 1..MaxThreads

\* an attribute that is not set (hasattr is false), and one that is
Unset == <<>>
Attr(v) == <<v>>

InitFlag(enabled_by_default) ==
    /\ settings = enabled_by_default
    /\ status = [t \in Threads |-> Unset]
    /\ managers = [disable_indexing |-> Unset, enable_indexing |-> Unset]
    /\ scopes = [t \in Threads |-> <<>>]
    /\ exited = [t \in Threads |-> <<>>]

\* the model classes of the application
Models == {"foo", "related"}

InitRegistry == registry = [model_class \in Models |-> Unset]

NoChain == [op |-> "none", initial |-> {}, batches |-> <<>>]

InitBatch(docs, pks) ==
    /\ documents = docs
    /\ datastore = pks
    /\ deferred = <<>>
    /\ running = <<>>
    /\ purging = [pc |-> "idle", doc_ids |-> <<>>, calls |-> 0]
    /\ fetched = NoChain

InitDjango == InitFlag(TRUE) /\ InitRegistry /\ InitBatch({}, {})

-----------------------------------------------------------------------------
(* Bounds of the model *)

MaxNodes == 4
MaxSQ == 2
MaxDocs == 2
MaxReplay == 1
MaxKeywords == 1
MaxSearches == 1

-----------------------------------------------------------------------------
(* Strings *)

Char(s, i) == SubSeq(s, i, i)

\* s.find(sub) from position i on: the first index >= i, or 0
RECURSIVE Find(_, _, _)
Find(s, sub, i) ==
    IF i + Len(sub) - 1 > Len(s) THEN 0
    ELSE IF SubSeq(s, i, i + Len(sub) - 1) = sub THEN i
    ELSE Find(s, sub, i + 1)

Contains(s, sub) == Find(s, sub, 1) # 0

\* sep.join(strs)
RECURSIVE Join(_, _)
Join(sep, strs) ==
    IF strs = <<>> THEN ""
    ELSE IF Len(strs) = 1 THEN strs[1]
    ELSE strs[1] \o sep \o Join(sep, Tail(strs))

Digit(d) == Char("0123456789", d + 1)

\* str(n) / '%s' % n for an int
RECURSIVE NatToStr(_)
NatToStr(n) == IF n < 10 THEN Digit(n) ELSE NatToStr(n \div 10) \o Digit(n % 10)

IntToStr(n) == IF n < 0 THEN "-" \o NatToStr(-n) ELSE NatToStr(n)

-----------------------------------------------------------------------------
(* Python values used as filter values *)

\* n is the int, or the whole part (the floor) of a float whose tenths are f
StrV(s) == [t |-> "str", s |-> s, n |-> 0, f |-> 0]
IntV(n) == [t |-> "int", s |-> "", n |-> n, f |-> 0]
NoneV == [t |-> "none", s |-> "", n |-> 0, f |-> 0]

\* datetime.date(y, m, d), and datetime.datetime(y, m, d, 12, 30, 0): the
\* datetime values of the model all carry the same time of day
DateV(y, m, d) == [t |-> "date", s |-> "", n |-> y * 10000 + m * 100 + d, f |-> 0]
DateTimeV(y, m, d) ==
    [t |-> "datetime", s |-> "", n |-> y * 10000 + m * 100 + d, f |-> 0]

YearOf(v) == v.n \div 10000
MonthOf(v) == (v.n \div 100) % 100
DayOf(v) == v.n % 100

\* an int in at least w digits, zero-padded
RECURSIVE PadLeft(_, _)
PadLeft(str, w) == IF Len(str) >= w THEN str ELSE PadLeft("0" \o str, w)

ZeroPad(n, w) == PadLeft(NatToStr(n), w)

\* date.isoformat(): 'YYYY-MM-DD'
IsoFormat(v) == ZeroPad(YearOf(v), 4) \o "-" \o ZeroPad(MonthOf(v), 2) \o "-" \o ZeroPad(DayOf(v), 2)

\* unicode(v), '%s' % v
ToUnicode(v) ==
    CASE v.t = "str" -> v.s
      [] v.t = "int" -> IntToStr(v.n)
      [] v.t = "date" -> IsoFormat(v)
      [] v.t = "datetime" -> IsoFormat(v) \o " 12:30:00"
      [] OTHER -> "None"

\* repr(v), as str() of a tuple shows its items
Repr(v) ==
    CASE v.t = "str" -> "'" \o v.s \o "'"
      [] v.t = "int" -> IntToStr(v.n)
      [] v.t = "date" ->
            "datetime.date(" \o NatToStr(YearOf(v)) \o ", "
                \o NatToStr(MonthOf(v)) \o ", " \o NatToStr(DayOf(v)) \o ")"
      [] v.t = "datetime" ->
            "datetime.datetime(" \o NatToStr(YearOf(v)) \o ", "
                \o NatToStr(MonthOf(v)) \o ", " \o NatToStr(DayOf(v)) \o ", 12, 30)"
      [] OTHER -> "None"

-----------------------------------------------------------------------------
(* The bound document class: class FakeDocument(DocumentModel) *)

DocFields == {"foo", "x", "y", "bar"}

\* bar = DateField(); the other fields are TextField()
DateFields == {"bar"}

DocClassName == "FakeDocument"

\* TextField.prep_value_for_filter: to_search_value(IndexedValue(value)); an
\* IndexedValue is unicode(value) and is returned as it is
TextPrepValueForFilter(v) == StrV(ToUnicode(v))

\* DateField.none_value: date.max
DateNoneValue == DateV(9999, 12, 31)

\* value.strftime('%Y-%m-%d') of a date or datetime: Python 2 raises
\* ValueError for a year before 1900
Strftime(v) ==
    IF YearOf(v) < 1900 THEN [err |-> "ValueError", s |-> ""]
    ELSE [err |-> "", s |-> IsoFormat(v)]

\* DateField.prep_value_for_filter(value, filter_expr): [err, v]
DatePrepValueForFilter(v, prop_name, op) ==
    IF v.t = "none" THEN [err |-> "", v |-> DateNoneValue]
    ELSE IF v.t \notin {"date", "datetime"} THEN [err |-> "TypeError", v |-> NoneV]
    ELSE LET Prep(filter_value) ==
                 IF filter_value.err # "" THEN [err |-> filter_value.err, v |-> NoneV]
                 ELSE IF op \in {"gt", "gte"}
                 THEN [err |-> "",
                       v |-> StrV(filter_value.s \o " AND NOT " \o prop_name
                                     \o ":" \o ToUnicode(DateNoneValue))]
                 ELSE [err |-> "", v |-> StrV(filter_value.s)]
         IN  Prep(Strftime(v))

-----------------------------------------------------------------------------
(* FilterExpr *)

SEPARATOR == "__"

DEFAULT_OP == "exact"

GeoOps == {"geo", "geo_lt", "geo_lte", "geo_gt", "geo_gte"}

OPS == {"contains", "exact", "lt", "lte", "gt", "gte"} \cup GeoOps

\* FilterExpr._split_filter: [err, prop_name, op]; unpacking a split of more
\* than two parts raises ValueError
SplitFilter(prop_expr) ==
    LET i == Find(prop_expr, SEPARATOR, 1)
        before == SubSeq(prop_expr, 1, i - 1)
        after == SubSeq(prop_expr, i + Len(SEPARATOR), Len(prop_expr))
    IN  IF i = 0
        THEN [err |-> "", prop_name |-> prop_expr, op |-> "exact"]
        ELSE IF Contains(after, SEPARATOR)
        THEN [err |-> "ValueError", prop_name |-> "", op |-> ""]
        ELSE [err |-> "", prop_name |-> before,
              op |-> IF after \in OPS THEN after ELSE DEFAULT_OP]

\* FilterExpr.OPS[op] % (prop_name, value), for the non-geo operators
Template(op, prop_name, value) ==
    CASE op = "contains" -> prop_name \o ":(" \o value \o ")"
      [] op = "exact" -> prop_name \o ":\"" \o value \o "\""
      [] op = "lt" -> prop_name \o " < " \o value
      [] op = "lte" -> prop_name \o " <= " \o value
      [] op = "gt" -> prop_name \o " > " \o value
      [] op = "gte" -> prop_name \o " >= " \o value

\* FilterExpr.__unicode__: a geo operator needs a GeoQueryArguments value
FilterExprUnicode(prop_name, op, value) ==
    IF op \in GeoOps
    THEN [err |-> "TypeError", s |-> ""]
    ELSE [err |-> "", s |-> Template(op, prop_name, ToUnicode(value))]

-----------------------------------------------------------------------------
(* Q: nodes on the heap.  A child is a (key, value) pair or a reference to *)
(* another Q object.                                                       *)

AND == "AND"
OR == "OR"
NOT == "NOT"
DEFAULT == AND

Pair(k, v) == [tag |-> "pair", k |-> k, v |-> v, ref |-> 0]
Ref(id) == [tag |-> "q", k |-> "", v |-> NoneV, ref |-> id]

\* one keyword argument: a scalar value, or a list of scalar values
Kw(k, v) == [k |-> k, isList |-> FALSE, vals |-> <<v>>]
KwList(k, vs) == [k |-> k, isList |-> TRUE, vals |-> vs]

Node(kwargs, children, conn, inverted) ==
    [kwargs |-> kwargs, children |-> children, conn |-> conn, inverted |-> inverted]

\* allocation: the heap with a new object, and the new object's id
Alloc(h, obj) == [heap |-> Append(h, obj), id |-> Len(h) + 1]

\* Q._combine: a new Q() holding self and other, joined by conn
CombineMutatesSelf(h, a, b, conn) ==
    [heap |-> [h EXCEPT ![a].conn = conn,
                        ![a].children = Append(h[a].children, Ref(b))],
     id |-> a]

Combine(h, a, b, conn) ==
    Alloc(h, Node(<<>>, <<Ref(a), Ref(b)>>, conn, FALSE))

\* the loop of Q.__init__ over a list value: q = Q(k=v[0]); q |= Q(k=value)
RECURSIVE OrChainJoinsByAnd(_, _, _, _)
OrChainJoinsByAnd(h, q, k, rest) ==
    IF rest = <<>> THEN [heap |-> h, id |-> q]
    ELSE LET leaf == Alloc(h, Node(<<Kw(k, Head(rest))>>,
                                   <<Pair(k, Head(rest))>>, DEFAULT, FALSE))
             both == Combine(leaf.heap, q, leaf.id, AND)
         IN  OrChainJoinsByAnd(both.heap, both.id, k, Tail(rest))

RECURSIVE OrChain(_, _, _, _)
OrChain(h, q, k, rest) ==
    IF rest = <<>> THEN [heap |-> h, id |-> q]
    ELSE LET leaf == Alloc(h, Node(<<Kw(k, Head(rest))>>,
                                   <<Pair(k, Head(rest))>>, DEFAULT, FALSE))
             both == Combine(leaf.heap, q, leaf.id, OR)
         IN  OrChain(both.heap, both.id, k, Tail(rest))

\* Q.__init__: the children of Q(**kwargs), in the order of kwargs.items()
RECURSIVE InitChildren(_, _, _)
InitChildren(h, kwargs, children) ==
    IF kwargs = <<>> THEN [heap |-> h, children |-> children]
    ELSE LET kw == Head(kwargs)
         IN  IF kw.isList
             THEN LET first == Alloc(h, Node(<<Kw(kw.k, kw.vals[1])>>,
                                             <<Pair(kw.k, kw.vals[1])>>, DEFAULT, FALSE))
                      chain == OrChain(first.heap, first.id, kw.k, Tail(kw.vals))
                  IN  InitChildren(chain.heap, Tail(kwargs),
                                   Append(children, Ref(chain.id)))
             ELSE InitChildren(h, Tail(kwargs),
                               Append(children, Pair(kw.k, kw.vals[1])))

QInit(h, kwargs) ==
    LET c == InitChildren(h, kwargs, <<>>)
    IN  Alloc(c.heap, Node(kwargs, c.children, DEFAULT, FALSE))

\* the number of Q objects Q(**kwargs) creates
RECURSIVE InitCost(_)
InitCost(kwargs) ==
    IF kwargs = <<>> THEN 1
    ELSE (IF Head(kwargs).isList THEN 2 * Len(Head(kwargs).vals) - 1 ELSE 0)
         + InitCost(Tail(kwargs))

\* Q.__invert__: type(self)(**self.kwargs), with inverted toggled
Invert(h, a) ==
    LET obj == QInit(h, h[a].kwargs)
    IN  [heap |-> [obj.heap EXCEPT ![obj.id].inverted = ~h[a].inverted],
         id |-> obj.id]

-----------------------------------------------------------------------------
(* Rendering *)

\* Query.unparse_filter: [err, s]; err names the exception raised, if any.
\* A child is a Q (rendered with its children) or a (field_lookup, value) pair
RECURSIVE UnparseFilter(_, _)
RECURSIVE UnparseChildren(_, _)

\* a rendering of a leaf that never consults the document class
UnparseLeafWithoutSchema(filter_lookup, value) ==
    LET expr == SplitFilter(filter_lookup)
    IN  IF expr.err # "" THEN [err |-> expr.err, s |-> ""]
        ELSE FilterExprUnicode(expr.prop_name, expr.op, TextPrepValueForFilter(value))

UnparseLeaf(filter_lookup, value) ==
    LET expr == SplitFilter(filter_lookup)
    IN  IF expr.err # "" THEN [err |-> expr.err, s |-> ""]
        ELSE IF expr.prop_name \notin DocFields
        THEN [err |-> "FieldLookupError", s |-> ""]
        ELSE IF expr.prop_name \in DateFields
        THEN LET Filtered(prepared) ==
                     IF prepared.err # "" THEN [err |-> "BadValueError", s |-> ""]
                     ELSE FilterExprUnicode(expr.prop_name, expr.op, prepared.v)
             IN  Filtered(DatePrepValueForFilter(value, expr.prop_name, expr.op))
        ELSE FilterExprUnicode(expr.prop_name, expr.op, TextPrepValueForFilter(value))

UnparseNodeNotInside(conn, inverted, joined) ==
    IF inverted THEN "(" \o NOT \o " " \o joined \o ")" ELSE "(" \o joined \o ")"

UnparseNodeBare(conn, inverted, joined) ==
    IF inverted THEN NOT \o " (" \o joined \o ")" ELSE joined

\* the template of a Q node applied to its joined children
UnparseNode(conn, inverted, joined) ==
    IF inverted THEN NOT \o " (" \o joined \o ")" ELSE "(" \o joined \o ")"

UnparseChildren(h, children) ==
    IF children = <<>> THEN [err |-> "", strs |-> <<>>]
    ELSE LET first == UnparseFilter(h, Head(children))
             rest == UnparseChildren(h, Tail(children))
         IN  IF first.err # "" THEN [err |-> first.err, strs |-> <<>>]
             ELSE IF rest.err # "" THEN rest
             ELSE [err |-> "", strs |-> <<first.s>> \o rest.strs]

UnparseFilter(h, child) ==
    IF child.tag = "q"
    THEN LET q == h[child.ref]
             parts == UnparseChildren(h, q.children)
         IN  IF parts.err # "" THEN [err |-> parts.err, s |-> ""]
             ELSE [err |-> "",
                   s |-> UnparseNode(q.conn, q.inverted,
                                     Join(" " \o q.conn \o " ", parts.strs))]
    ELSE UnparseLeaf(child.k, child.v)

\* Q.__str__: str() of each child, a pair showing as Python shows a tuple
RECURSIVE QStr(_, _)
RECURSIVE QStrChildren(_, _)

QStrChildren(h, children) ==
    IF children = <<>> THEN <<>>
    ELSE LET c == Head(children)
         IN  <<IF c.tag = "q" THEN QStr(h, c.ref)
               ELSE "('" \o c.k \o "', " \o Repr(c.v) \o ")">>
             \o QStrChildren(h, Tail(children))

QStr(h, id) ==
    LET q == h[id]
        joined == Join(" " \o q.conn \o " ", QStrChildren(h, q.children))
    IN  IF q.inverted THEN "(" \o NOT \o " " \o joined \o ")" ELSE "(" \o joined \o ")"

-----------------------------------------------------------------------------
(* ql.Query: the gathered Q tree (0 when None) and the keywords *)

NewQuery == [gathered |-> 0, keywords |-> <<>>]

\* the characters \w matches, among those the model uses
WordChars ==
    LET w == "abcdefghijklmnopqrstuvwxyz0123456789_"
    IN  {Char(w, i) : i \in 1..Len(w)}

\* FORBIDDEN_VALUE_REGEX = [^_.@ \w-]+ matches every other character
Forbidden(c) == c \notin WordChars \cup {"_", ".", "@", " ", "-"}

\* Query._clean: FORBIDDEN_VALUE_REGEX.sub('', value)
RECURSIVE Clean(_)
Clean(value) ==
    IF value = "" THEN ""
    ELSE (IF Forbidden(Char(value, 1)) THEN "" ELSE Char(value, 1))
         \o Clean(SubSeq(value, 2, Len(value)))

\* an add_q that always combines with the default connective
AddQIgnoresConn(h, query, q, conn) ==
    IF query.gathered = 0
    THEN [heap |-> h, query |-> [query EXCEPT !.gathered = q]]
    ELSE LET r == Combine(h, query.gathered, q, DEFAULT)
         IN  [heap |-> r.heap, query |-> [query EXCEPT !.gathered = r.id]]

\* Query.add_q: the heap and the Query after self.add_q(q, conn); conn is ""
\* when no connective is supplied
AddQ(h, query, q, conn) ==
    IF query.gathered = 0
    THEN [heap |-> h, query |-> [query EXCEPT !.gathered = q]]
    ELSE LET r == Combine(h, query.gathered, q, IF conn = "" THEN DEFAULT ELSE conn)
         IN  [heap |-> r.heap, query |-> [query EXCEPT !.gathered = r.id]]

\* Query.add_keywords
AddKeywords(query, keywords) ==
    [query EXCEPT !.keywords = Append(query.keywords, keywords)]

\* Query.build_filters: None (shown as "") when nothing was gathered
BuildFilters(h, query) ==
    IF query.gathered = 0 THEN [err |-> "", s |-> ""]
    ELSE UnparseFilter(h, Ref(query.gathered))

\* Query.build_keywords: None (shown as "") when there are no keywords
BuildKeywords(query) ==
    IF query.keywords = <<>> THEN "" ELSE Clean(Join(" ", query.keywords))

\* a build_query that joins keywords and filters by a space
BuildQueryJoinsBySpace(h, query) ==
    LET Build(filters, keywords) ==
            IF filters.err # "" THEN filters
            ELSE IF filters.s # "" /\ keywords # ""
            THEN [err |-> "", s |-> keywords \o " " \o filters.s]
            ELSE IF filters.s # "" THEN filters
            ELSE [err |-> "", s |-> keywords]
    IN  Build(BuildFilters(h, query), BuildKeywords(query))

\* Query.build_query, which is str(query)
BuildQuery(h, query) ==
    LET Build(filters, keywords) ==
            IF filters.err # "" THEN filters
            ELSE IF filters.s # "" /\ keywords # ""
            THEN [err |-> "", s |-> keywords \o " " \o AND \o " " \o filters.s]
            ELSE IF filters.s # "" THEN filters
            ELSE [err |-> "", s |-> keywords]
    IN  Build(BuildFilters(h, query), BuildKeywords(query))

-----------------------------------------------------------------------------
(* SearchQuery.  Sorting, snippets, the match scorer and the raw query do   *)
(* not bear on windows, results or caches and are left out.                *)

MAX_LIMIT == 1000
MAX_OFFSET == 1000

\* an optional int: None, or a value
Nil == [none |-> TRUE, n |-> 0]
Some(n) == [none |-> FALSE, n |-> n]

\* `x or d` for an optional int: None and 0 are both false
OrElse(x, d) == IF x.none \/ x.n = 0 THEN d ELSE x.n

NoCursor == [set |-> FALSE, pos |-> 0]
NoList == [set |-> FALSE, items |-> <<>>]
NoResponse == [set |-> FALSE, results |-> <<>>, number_found |-> 0, cursor |-> NoCursor]

\* the options of an index.search call, before any was made
NoSearch == [query_string |-> "", offset |-> 0, limit |-> 0, cursor |-> NoCursor]

\* SearchQuery.__init__
NewSearchQuery(query, ids_only) ==
    [query |-> query, ids_only |-> ids_only,
     cursor |-> NoCursor, next_cursor |-> NoCursor,
     has_set_limits |-> FALSE, offset |-> 0, limit |-> MAX_LIMIT,
     number_found |-> Nil, results_cache |-> NoList,
     results_response |-> NoResponse,
     gen |-> [state |-> "none", pos |-> 0], replays |-> <<>>]

\* SearchQuery._set_limits
SetLimits(sq, low, high) ==
    LET lo == OrElse(low, 0)
        hi == OrElse(high, MAX_LIMIT + lo)
    IN  [sq EXCEPT !.offset = lo, !.limit = hi - lo, !.has_set_limits = TRUE]

\* SearchQuery._reset_limits
ResetLimits(sq) ==
    [sq EXCEPT !.offset = 0, !.limit = MAX_LIMIT, !.has_set_limits = FALSE]

\* SearchQuery._clone: a new instance sharing self.query
Clone(sq) ==
    [SetLimits(NewSearchQuery(sq.query, sq.ids_only),
               Some(sq.offset), Some(sq.limit - sq.offset))
        EXCEPT !.cursor = sq.cursor, !.next_cursor = sq.next_cursor]

\* quote_if_special_characters: PUNCTUATION_REGEX = [^\w -\'"+] matched at
\* the first character (the range ' '-'\'' is space ! " # $ % & ')
Punctuation(c) ==
    c \notin WordChars \cup {" ", "!", "\"", "#", "$", "%", "&", "'", "+"}

QuoteIfSpecialCharacters(value) ==
    IF value # "" /\ Punctuation(Char(value, 1))
    THEN "\"" \o value \o "\"" ELSE value

SQs == 1..Len(sqs)

\* str(sq.query)
Compiled(h, qs, sq) == BuildQuery(h, qs[sq.query])

-----------------------------------------------------------------------------
(* Execution *)

\* what a call returned or raised
Ret(kind, val) == [kind |-> kind, val |-> val]

Min2(a, b) == IF a <= b THEN a ELSE b

\* The platform: index.search(query, options).  Every document of the index
\* matches; the results are the window [offset, offset + limit) of the
\* matches, or the window of `limit` documents after the cursor's position
\* when a cursor is given (the offset is then ignored); number_found counts
\* all matches; the response carries a cursor when one was asked for and
\* documents remain after those returned.
PlatformSearch(idx, offset, limit, cursor) ==
    LET start == IF cursor.set THEN cursor.pos ELSE offset
        results == SubSeq(idx, start + 1, Min2(start + limit, Len(idx)))
    IN  [results |-> results,
         number_found |-> Len(idx),
         cursor |-> IF cursor.set /\ results # <<>>
                       /\ start + Len(results) < Len(idx)
                    THEN [set |-> TRUE, pos |-> start + Len(results)]
                    ELSE NoCursor]

\* the cursor passed in the query options
CursorOption(sq) == sq.cursor

\* the cursor of the response, kept for next_cursor
WithNextCursor(sq, response) == [sq EXCEPT !.next_cursor = response.cursor]

\* SearchQuery._run_query: [err, sq, search]; err when str(self.query) raises
RunQueryCountsResults(h, qs, idx, sq) ==
    LET Run(qstr, resp) ==
            [err |-> qstr.err,
             sq |-> IF qstr.err # "" THEN sq ELSE WithNextCursor(
                        [sq EXCEPT !.results_response =
                                       [set |-> TRUE, results |-> resp.results,
                                        number_found |-> resp.number_found,
                                        cursor |-> resp.cursor],
                                   !.number_found = Some(Len(resp.results))],
                        resp),
             search |-> [query_string |-> qstr.s, offset |-> sq.offset,
                         limit |-> sq.limit, cursor |-> CursorOption(sq)]]
    IN  Run(Compiled(h, qs, sq),
            PlatformSearch(idx, sq.offset, sq.limit, CursorOption(sq)))

RunQuery(h, qs, idx, sq) ==
    LET Run(qstr, resp) ==
            [err |-> qstr.err,
             sq |-> IF qstr.err # "" THEN sq ELSE WithNextCursor(
                        [sq EXCEPT !.results_response =
                                       [set |-> TRUE, results |-> resp.results,
                                        number_found |-> resp.number_found,
                                        cursor |-> resp.cursor],
                                   !.number_found = Some(resp.number_found)],
                        resp),
             search |-> [query_string |-> qstr.s, offset |-> sq.offset,
                         limit |-> sq.limit, cursor |-> CursorOption(sq)]]
    IN  Run(Compiled(h, qs, sq),
            PlatformSearch(idx, sq.offset, sq.limit, CursorOption(sq)))

\* a __len__ that executes the query at every call
LenOfAlwaysRuns(h, qs, idx, sq) ==
    LET Ran(windowed, r) ==
            [err |-> r.err,
             sq |-> IF r.err # "" THEN windowed ELSE ResetLimits(r.sq),
             ran |-> r.err = "", search |-> r.search]
        Windowed(windowed) == Ran(windowed, RunQuery(h, qs, idx, windowed))
    IN  Windowed(IF ~sq.has_set_limits
                 THEN SetLimits(sq, Some(0), Some(1)) ELSE sq)

\* SearchQuery.__len__: [err, sq, ran, search]
LenOf(h, qs, idx, sq) ==
    IF sq.number_found.none
    THEN LET Ran(windowed, r) ==
                 [err |-> r.err,
                  sq |-> IF r.err # "" THEN windowed ELSE ResetLimits(r.sq),
                  ran |-> r.err = "", search |-> r.search]
             Windowed(windowed) == Ran(windowed, RunQuery(h, qs, idx, windowed))
         IN  Windowed(IF ~sq.has_set_limits
                      THEN SetLimits(sq, Some(0), Some(1)) ELSE sq)
    ELSE [err |-> "", sq |-> sq, ran |-> FALSE, search |-> NoSearch]

\* a result as the iterator hands it out: the bare id, or the Document
\* construct_document makes of it
Result(sq, d) == [kind |-> IF sq.ids_only THEN "id" ELSE "Document", doc_id |-> d]

RECURSIVE Results(_, _)
Results(sq, ds) ==
    IF ds = <<>> THEN <<>> ELSE <<Result(sq, Head(ds))>> \o Results(sq, Tail(ds))

\* SearchQuery.__iter__: the first call makes the cache and the generator
\* _results_iter(); a later call makes an iterator over the cache
IterAgainRunsAgain(sq) ==
    [sq EXCEPT !.results_cache = [set |-> TRUE, items |-> <<>>],
               !.results_response = NoResponse,
               !.gen = [state |-> "new", pos |-> 0]]

IterOf(sq) ==
    IF ~sq.results_cache.set
    THEN [sq EXCEPT !.results_cache = [set |-> TRUE, items |-> <<>>],
                    !.gen = [state |-> "new", pos |-> 0]]
    ELSE [sq EXCEPT !.replays =
              Append(@, [pos |-> 0, done |-> FALSE, yielded |-> <<>>,
                         late |-> sq.gen.state = "done"])]

\* next() of the generator _results_iter(): [err, sq, ran, search, out];
\* out is what next() returns or raises
GenNextOf(h, qs, idx, sq) ==
    LET starting == sq.gen.state = "new"
        run == starting /\ ~sq.results_response.set
        pos == IF starting THEN 0 ELSE sq.gen.pos
        Resume(r, results) ==
            IF sq.gen.state = "done" \/ r.err # ""
            THEN [err |-> r.err, sq |-> [sq EXCEPT !.gen.state = "done"],
                  ran |-> FALSE, search |-> NoSearch,
                  out |-> IF r.err # "" THEN Ret(r.err, "")
                          ELSE Ret("StopIteration", "")]
            ELSE IF pos < Len(results)
            THEN [err |-> "",
                  sq |-> [r.sq EXCEPT
                            !.results_cache.items =
                                Append(@, Result(sq, results[pos + 1])),
                            !.gen = [state |-> "running", pos |-> pos + 1]],
                  ran |-> run, search |-> r.search,
                  out |-> Ret("item", Result(sq, results[pos + 1]))]
            ELSE [err |-> "", sq |-> [r.sq EXCEPT !.gen.state = "done"],
                  ran |-> run, search |-> r.search,
                  out |-> Ret("StopIteration", "")]
        Started(r) == Resume(r, r.sq.results_response.results)
    IN  Started(IF run THEN RunQuery(h, qs, idx, sq)
                ELSE [err |-> "", sq |-> sq, search |-> NoSearch])

\* next() of an iterator over the cache list
ReplayNextOf(sq, i) ==
    LET it == sq.replays[i]
    IN  IF ~it.done /\ it.pos < Len(sq.results_cache.items)
        THEN [sq EXCEPT !.replays[i].pos = it.pos + 1,
                        !.replays[i].yielded =
                            Append(@, sq.results_cache.items[it.pos + 1])]
        ELSE [sq EXCEPT !.replays[i].done = TRUE]

-----------------------------------------------------------------------------
(* Building Q trees: the constructor and the operators &, | and ~ *)

KwargsInputs ==
    { <<Kw("x", IntV(1))>>,
      <<Kw("y", IntV(2))>>,
      <<Kw("x", IntV(1)), Kw("y", IntV(2))>>,
      <<KwList("foo", <<IntV(1), IntV(2)>>)>> }

Nodes == 1..Len(qheap)

QFrame == UNCHANGED <<queries, sqs, index, searches, lastSearch, field, doc, django>>

\* q = Q(**kwargs)
QNew(kwargs) ==
    /\ Len(qheap) + InitCost(kwargs) <= MaxNodes
    /\ LET r == QInit(qheap, kwargs)
       IN  /\ qheap' = r.heap
           /\ ret' = Ret("q", r.id)
    /\ QFrame

\* a & b
QAnd(a, b) ==
    /\ Len(qheap) < MaxNodes
    /\ LET r == Combine(qheap, a, b, AND)
       IN  /\ qheap' = r.heap
           /\ ret' = Ret("q", r.id)
    /\ QFrame

\* a | b
QOr(a, b) ==
    /\ Len(qheap) < MaxNodes
    /\ LET r == Combine(qheap, a, b, OR)
       IN  /\ qheap' = r.heap
           /\ ret' = Ret("q", r.id)
    /\ QFrame

\* ~a
QInvert(a) ==
    /\ Len(qheap) + InitCost(qheap[a].kwargs) <= MaxNodes
    /\ LET r == Invert(qheap, a)
       IN  /\ qheap' = r.heap
           /\ ret' = Ret("q", r.id)
    /\ QFrame

InitQ ==
    /\ qheap = <<>>
    /\ queries = <<>>
    /\ sqs = <<>>
    /\ index = <<>>
    /\ searches = 0
    /\ lastSearch = NoSearch
    /\ ret = Ret("none", 0)
    /\ field = NoField
    /\ doc = NoDocument
    /\ InitDjango

NextQ ==
    \/ \E kwargs \in KwargsInputs : QNew(kwargs)
    \/ \E a \in Nodes, b \in Nodes : QAnd(a, b)
    \/ \E a \in Nodes, b \in Nodes : QOr(a, b)
    \/ \E a \in Nodes : QInvert(a)

SpecQ == InitQ /\ [][NextQ]_vars

-----------------------------------------------------------------------------
(* SearchQuery: the calls *)

\* the IndexError __getitem__ raises for a slice, "" when it raises none
SliceErrorNoWidthCheck(start, stop) ==
    IF ~start.none /\ start.n < 0 THEN "Offset cannot be less than 0"
    ELSE IF ~start.none /\ start.n > MAX_OFFSET
    THEN "Offset cannot be larger than " \o IntToStr(MAX_OFFSET)
    ELSE IF ~stop.none /\ stop.n < OrElse(start, 0)
    THEN "Negative indexing not supported"
    ELSE ""

SliceError(start, stop) ==
    IF ~start.none /\ start.n < 0 THEN "Offset cannot be less than 0"
    ELSE IF ~start.none /\ start.n > MAX_OFFSET
    THEN "Offset cannot be larger than " \o IntToStr(MAX_OFFSET)
    ELSE IF ~stop.none /\ stop.n < OrElse(start, 0)
    THEN "Negative indexing not supported"
    ELSE IF ~stop.none /\ stop.n - OrElse(start, 0) > MAX_LIMIT
    THEN "Slice is too large, it must be smaller than " \o IntToStr(MAX_LIMIT)
    ELSE ""

\* the IndexError __getitem__ raises for an integer index
IndexingError(i) ==
    IF i > MAX_OFFSET THEN "Cannot index higher than " \o IntToStr(MAX_OFFSET)
    ELSE IF i < 0 THEN "Negative indexing not supported"
    ELSE ""

\* items[::step]
RECURSIVE EveryNth(_, _)
EveryNth(items, step) ==
    IF items = <<>> THEN <<>>
    ELSE <<Head(items)>>
         \o EveryNth(SubSeq(items, Min2(step, Len(items)) + 1, Len(items)), step)

SQFrame == UNCHANGED <<qheap, queries, index, field, doc, django>>

\* index.search(): SearchQuery(index, document_class, ids_only)
Search(ids_only) ==
    /\ Len(sqs) < MaxSQ
    /\ queries' = Append(queries, NewQuery)
    /\ sqs' = Append(sqs, NewSearchQuery(Len(queries) + 1, ids_only))
    /\ ret' = Ret("query", Len(sqs) + 1)
    /\ UNCHANGED <<qheap, index, searches, lastSearch, field, doc, django>>

\* sq.keywords(keywords)
Keywords(s, keywords) ==
    /\ Len(queries[sqs[s].query].keywords) < MaxKeywords
    /\ queries' = [queries EXCEPT ![sqs[s].query] =
                       AddKeywords(@, QuoteIfSpecialCharacters(keywords))]
    /\ ret' = Ret("query", s)
    /\ UNCHANGED <<qheap, sqs, index, searches, lastSearch, field, doc, django>>

\* sq.filter(k=v)
FilterKw(s, k, v) ==
    /\ Len(qheap) + 1 + (IF queries[sqs[s].query].gathered = 0 THEN 0 ELSE 1)
          <= MaxNodes
    /\ LET q == QInit(qheap, <<Kw(k, v)>>)
           r == AddQ(q.heap, queries[sqs[s].query], q.id, "")
       IN  /\ qheap' = r.heap
           /\ queries' = [queries EXCEPT ![sqs[s].query] = r.query]
    /\ ret' = Ret("query", s)
    /\ UNCHANGED <<sqs, index, searches, lastSearch, field, doc, django>>

\* sq.filter(~Q(k=v))
FilterNotQ(s, k, v) ==
    /\ Len(qheap) + 2 + (IF queries[sqs[s].query].gathered = 0 THEN 0 ELSE 1)
          <= MaxNodes
    /\ LET q == QInit(qheap, <<Kw(k, v)>>)
           n == Invert(q.heap, q.id)
           r == AddQ(n.heap, queries[sqs[s].query], n.id, "")
       IN  /\ qheap' = r.heap
           /\ queries' = [queries EXCEPT ![sqs[s].query] = r.query]
    /\ ret' = Ret("query", s)
    /\ UNCHANGED <<sqs, index, searches, lastSearch, field, doc, django>>

\* sq[start:stop:step]
GetItemSlice(s, start, stop, step) ==
    LET Listed(new_query, r) ==
            IF r.err # ""
            THEN /\ ret' = Ret(r.err, "")
                 /\ UNCHANGED <<sqs, searches, lastSearch>>
            ELSE /\ searches < MaxSearches
                 /\ searches' = searches + 1
                 /\ lastSearch' = r.search
                 /\ ret' = Ret("list",
                               EveryNth(Results(new_query,
                                                r.sq.results_response.results),
                                        step.n))
                 /\ UNCHANGED sqs
        Sliced(e, new_query) ==
            IF e # ""
            THEN /\ ret' = Ret("IndexError", e)
                 /\ UNCHANGED <<sqs, searches, lastSearch>>
            ELSE IF OrElse(step, 0) = 0
            THEN /\ Len(sqs) < MaxSQ
                 /\ sqs' = Append(sqs, new_query)
                 /\ ret' = Ret("query", Len(sqs) + 1)
                 /\ UNCHANGED <<searches, lastSearch>>
            ELSE Listed(new_query, RunQuery(qheap, queries, index, new_query))
    IN  /\ Sliced(SliceError(start, stop), SetLimits(Clone(sqs[s]), start, stop))
        /\ SQFrame

\* sq[i]
GetItemIndex(s, i) ==
    LET First(r, items) ==
            IF r.err # ""
            THEN /\ ret' = Ret(r.err, "")
                 /\ UNCHANGED <<sqs, searches, lastSearch>>
            ELSE /\ searches < MaxSearches
                 /\ searches' = searches + 1
                 /\ lastSearch' = r.search
                 /\ ret' = IF items = <<>>
                           THEN Ret("IndexError", "list index out of range")
                           ELSE Ret("item", items[1])
                 /\ UNCHANGED sqs
        Listed(new_query, r) ==
            First(r, Results(new_query, r.sq.results_response.results))
        Indexed(e, new_query) ==
            IF e # ""
            THEN /\ ret' = Ret("IndexError", e)
                 /\ UNCHANGED <<sqs, searches, lastSearch>>
            ELSE Listed(new_query, RunQuery(qheap, queries, index, new_query))
    IN  /\ Indexed(IndexingError(i), SetLimits(Clone(sqs[s]), Some(i), Some(i + 1)))
        /\ SQFrame

\* len(sq), sq.count()
Count(s) ==
    LET Counted(r) ==
            /\ sqs' = [sqs EXCEPT ![s] = r.sq]
            /\ searches' = IF r.ran THEN searches + 1 ELSE searches
            /\ lastSearch' = IF r.ran THEN r.search ELSE lastSearch
            /\ ret' = IF r.err # "" THEN Ret(r.err, "")
                      ELSE Ret("int", r.sq.number_found.n)
    IN  /\ Counted(LenOf(qheap, queries, index, sqs[s]))
        /\ SQFrame

\* iter(sq)
Iter(s) ==
    /\ Len(sqs[s].replays) < MaxReplay \/ ~sqs[s].results_cache.set
    /\ sqs' = [sqs EXCEPT ![s] = IterOf(@)]
    /\ ret' = Ret("iterator", s)
    /\ UNCHANGED <<searches, lastSearch>>
    /\ SQFrame

\* next() of the generator that the first iter(sq) returned
GenNext(s) ==
    /\ sqs[s].gen.state # "none"
    /\ LET Stepped(r) ==
               /\ sqs' = [sqs EXCEPT ![s] = r.sq]
               /\ searches' = IF r.ran THEN searches + 1 ELSE searches
               /\ lastSearch' = IF r.ran THEN r.search ELSE lastSearch
               /\ ret' = r.out
       IN  Stepped(GenNextOf(qheap, queries, index, sqs[s]))
    /\ SQFrame

\* next() of the i-th iterator over the cache of sq
ReplayNext(s, i) ==
    /\ sqs' = [sqs EXCEPT ![s] = ReplayNextOf(@, i)]
    /\ ret' = IF ~sqs[s].replays[i].done
                 /\ sqs[s].replays[i].pos < Len(sqs[s].results_cache.items)
              THEN Ret("item", sqs[s].results_cache.items[sqs[s].replays[i].pos + 1])
              ELSE Ret("StopIteration", "")
    /\ UNCHANGED <<searches, lastSearch>>
    /\ SQFrame

\* sq.set_cursor(cursor), on a query that has not executed: a new Cursor()
\* when none is given
SetCursor(s, cursor) ==
    /\ ~sqs[s].results_response.set
    /\ sqs' =[sqs EXCEPT ![s].cursor =
                   IF cursor.set THEN cursor ELSE [set |-> TRUE, pos |-> 0]]
    /\ ret' = Ret("query", s)
    /\ UNCHANGED <<searches, lastSearch>>
    /\ SQFrame

-----------------------------------------------------------------------------
(* Specifications of SearchQuery *)

KeywordInputs == {"bar", "^x"}

FilterKeys == {"foo"}

FilterValues == {StrV("baz")}

\* slice bounds: None, the edges of the valid ranges and their neighbours
StartInputs == {Nil, Some(-1), Some(0), Some(1), Some(MAX_OFFSET + 1)}

StopInputs == {Nil, Some(0), Some(1), Some(MAX_LIMIT + 1)}

StepInputs == {Nil, Some(2)}

IndexInputs == {-1, 0, 1, MAX_OFFSET + 1}

\* the cursors a caller can hold: none given, or the next_cursor of a query
CursorInputs == {NoCursor} \cup {sqs[t].next_cursor : t \in SQs}

\* an index of n documents, in the order the platform returns them
InitSQ ==
    /\ qheap = <<>>
    /\ queries = <<>>
    /\ sqs = <<>>
    /\ index \in {[i \in 1..n |-> i] : n \in 0..MaxDocs}
    /\ searches = 0
    /\ lastSearch = NoSearch
    /\ ret = Ret("none", 0)
    /\ field = NoField
    /\ doc = NoDocument
    /\ InitDjango

\* building queries: keywords, filters and slices
NextBuild ==
    \/ \E ids_only \in {FALSE} : Search(ids_only)
    \/ \E s \in SQs, keywords \in KeywordInputs : Keywords(s, keywords)
    \/ \E s \in SQs, k \in FilterKeys, v \in FilterValues : FilterKw(s, k, v)
    \/ \E s \in SQs, k \in FilterKeys, v \in FilterValues : FilterNotQ(s, k, v)
    \/ \E s \in SQs : GetItemSlice(s, Some(1), Some(2), Nil)

SpecBuild == InitQ /\ [][NextBuild]_vars

\* windows and execution: slices, indexing, count and a first iteration
NextExec ==
    \/ \E ids_only \in {FALSE} : Search(ids_only)
    \/ \E s \in SQs, start \in StartInputs, stop \in StopInputs,
          step \in StepInputs : GetItemSlice(s, start, stop, step)
    \/ \E s \in SQs, i \in IndexInputs : GetItemIndex(s, i)
    \/ \E s \in SQs : Count(s)
    \/ \E s \in SQs : Iter(s)
    \/ \E s \in SQs : GenNext(s)

SpecExec == InitSQ /\ [][NextExec]_vars

\* iteration: the first iterator of a query and the later ones, over whole
\* result sets and over a slice of one
NextIter ==
    \/ \E ids_only \in BOOLEAN : Search(ids_only)
    \/ \E s \in SQs : GetItemSlice(s, Nil, Some(1), Nil)
    \/ \E s \in SQs : Count(s)
    \/ \E s \in SQs : Iter(s)
    \/ \E s \in SQs : GenNext(s)
    \/ \E s \in SQs, i \in 1..MaxReplay :
          i <= Len(sqs[s].replays) /\ ReplayNext(s, i)

SpecIter == InitSQ /\ [][NextIter]_vars

\* cursors: a query continued after the cursor of an earlier execution
NextCursor ==
    \/ \E ids_only \in {FALSE} : Search(ids_only)
    \/ \E s \in SQs, cursor \in CursorInputs : SetCursor(s, cursor)
    \/ \E s \in SQs : GetItemSlice(s, Nil, Some(1), Nil)
    \/ \E s \in SQs : Count(s)
    \/ \E s \in SQs : Iter(s)
    \/ \E s \in SQs : GenNext(s)

SpecCursor == InitSQ /\ [][NextCursor]_vars

-----------------------------------------------------------------------------
(* Properties of Q trees *)

\* the value of a tree: what a child holds, followed through the references
RECURSIVE TreeOf(_, _)
RECURSIVE TreesOf(_, _)

TreesOf(h, children) ==
    IF children = <<>> THEN <<>>
    ELSE <<TreeOf(h, Head(children))>> \o TreesOf(h, Tail(children))

TreeOf(h, child) ==
    IF child.tag = "q"
    THEN [tag |-> "q", k |-> "", v |-> NoneV, conn |-> h[child.ref].conn,
          inverted |-> h[child.ref].inverted,
          children |-> TreesOf(h, h[child.ref].children)]
    ELSE [tag |-> "pair", k |-> child.k, v |-> child.v, conn |-> "",
          inverted |-> FALSE, children |-> <<>>]

Rendered(id) == UnparseFilter(qheap, Ref(id)).s

\* the node of a leaf Q(k=v), not inverted / inverted
IsLeaf(id, k, v, inverted) ==
    /\ qheap[id].children = <<Pair(k, v)>>
    /\ qheap[id].inverted = inverted

\* a node as & and | build it
IsCombination(id) ==
    /\ qheap[id].kwargs = <<>>
    /\ Len(qheap[id].children) = 2
    /\ ~qheap[id].inverted

\* the parenthesis opened by the first character of s is closed by its last
\* one and by no earlier one
RECURSIVE OpenDepth(_, _, _)
OpenDepth(s, i, depth) ==
    IF i > Len(s) THEN depth
    ELSE IF depth = 0 /\ i > 1 THEN -1
    ELSE OpenDepth(s, i + 1,
                   CASE Char(s, i) = "(" -> depth + 1
                     [] Char(s, i) = ")" -> depth - 1
                     [] OTHER -> depth)

Enclosed(s) == Len(s) >= 2 /\ Char(s, 1) = "(" /\ OpenDepth(s, 1, 0) = 0

\* C7: a & b and a | b each return a new node with children [a, b], the
\* connective AND (for &) or OR (for |) and inverted false; no node that
\* existed before the call (a and b among them) is changed by it.
C7_CombineBuildsNewNode ==
    [][\A a \in Nodes, b \in Nodes :
        /\ QAnd(a, b) =>
             /\ ret'.val \notin Nodes
             /\ qheap'[ret'.val].children = <<Ref(a), Ref(b)>>
             /\ qheap'[ret'.val].conn = AND
             /\ ~qheap'[ret'.val].inverted
             /\ \A n \in Nodes : qheap'[n] = qheap[n]
        /\ QOr(a, b) =>
             /\ ret'.val \notin Nodes
             /\ qheap'[ret'.val].children = <<Ref(a), Ref(b)>>
             /\ qheap'[ret'.val].conn = OR
             /\ ~qheap'[ret'.val].inverted
             /\ \A n \in Nodes : qheap'[n] = qheap[n]]_vars

\* the same two leaves combined by & and again by |, the leaves as built
C7_Witness ==
    \E a \in Nodes, b \in Nodes, m \in Nodes, n \in Nodes :
        /\ a # b
        /\ IsLeaf(a, "x", IntV(1), FALSE) /\ qheap[a].conn = DEFAULT
        /\ IsLeaf(b, "y", IntV(2), FALSE) /\ qheap[b].conn = DEFAULT
        /\ qheap[m] = Node(<<>>, <<Ref(a), Ref(b)>>, AND, FALSE)
        /\ qheap[n] = Node(<<>>, <<Ref(a), Ref(b)>>, OR, FALSE)

\* C8: ~q returns a new node with the children and the connective of q and
\* with inverted toggled, for every node q, those built by & and | included;
\* q itself is not altered.
C8_InvertKeepsChildren ==
    [][\A a \in Nodes :
        QInvert(a) =>
            /\ ret'.val \notin Nodes
            /\ TreesOf(qheap', qheap'[ret'.val].children)
                 = TreesOf(qheap, qheap[a].children)
            /\ qheap'[ret'.val].conn = qheap[a].conn
            /\ qheap'[ret'.val].inverted = ~qheap[a].inverted
            /\ \A n \in Nodes : qheap'[n] = qheap[n]]_vars

\* C9: a one-pair leaf node renders as (field:"value"); a node built by & or
\* | renders as its children's renderings joined by its connective, inside
\* one pair of parentheses that encloses the whole rendering;
\* Q(x=1) & Q(y=2) renders as ((x:"1") AND (y:"2")).
C9_FullyParenthesised ==
    \A n \in Nodes :
        /\ \A k \in DocFields, i \in 1..2 :
             IsLeaf(n, k, IntV(i), FALSE) =>
                 Rendered(n) = "(" \o k \o ":\"" \o IntToStr(i) \o "\")"
        /\ IsCombination(n) =>
             /\ Rendered(n) = "(" \o Rendered(qheap[n].children[1].ref)
                                  \o " " \o qheap[n].conn \o " "
                                  \o Rendered(qheap[n].children[2].ref) \o ")"
             /\ Enclosed(Rendered(n))
        /\ \A a \in Nodes, b \in Nodes :
             ( /\ qheap[n] = Node(<<>>, <<Ref(a), Ref(b)>>, AND, FALSE)
               /\ IsLeaf(a, "x", IntV(1), FALSE)
               /\ IsLeaf(b, "y", IntV(2), FALSE) )
             => Rendered(n) = "((x:\"1\") AND (y:\"2\"))"

\* Q(x=1) & Q(y=2) has been built, and a combination of combinations
C9_Witness ==
    /\ \E a \in Nodes, b \in Nodes, n \in Nodes :
        /\ qheap[n] = Node(<<>>, <<Ref(a), Ref(b)>>, AND, FALSE)
        /\ IsLeaf(a, "x", IntV(1), FALSE)
        /\ IsLeaf(b, "y", IntV(2), FALSE)
        /\ Rendered(n) = "((x:\"1\") AND (y:\"2\"))"
    /\ \E n \in Nodes :
        /\ IsCombination(n)
        /\ qheap[n].conn = OR
        /\ IsCombination(qheap[n].children[1].ref)

\* C10 as amended: an inverted one-pair node renders with NOT in front of
\* the node's parentheses and with no parentheses around the whole:
\* ~Q(x=1) renders as NOT (x:"1").
C10_NotPrecedesParentheses ==
    \A n \in Nodes :
        \A k \in DocFields, i \in 1..2 :
            IsLeaf(n, k, IntV(i), TRUE) =>
                Rendered(n) = "NOT (" \o k \o ":\"" \o IntToStr(i) \o "\")"

\* ~Q(x=1) has been built
C10_Witness ==
    \E n \in Nodes :
        /\ IsLeaf(n, "x", IntV(1), TRUE)
        /\ qheap[n].kwargs = <<Kw("x", IntV(1))>>
        /\ Rendered(n) = "NOT (x:\"1\")"

\* C10 as stated: ~Q(x=1) renders as (NOT (x:"1")), by Query.unparse_filter
\* or by str() of the node.
C10_NotInsideParentheses ==
    \A n \in Nodes :
        IsLeaf(n, "x", IntV(1), TRUE) =>
            \/ Rendered(n) = "(NOT (x:\"1\"))"
            \/ QStr(qheap, n) = "(NOT (x:\"1\"))"

-----------------------------------------------------------------------------
(* Properties of SearchQuery *)

\* what the query s compiles to
CompiledOf(s) == Compiled(qheap, queries, sqs[s]).s

\* the window of a query
Window(sq) == <<sq.offset, sq.limit, sq.has_set_limits>>

\* C1: a filter call changes what no query obtained earlier compiles to: the
\* query it is called on and every other query render after the call as they
\* did before it, and the call returns a query that was not there before.
C1_FilterKeepsEarlierQueries ==
    [][\A s \in SQs, k \in FilterKeys, v \in FilterValues :
          (FilterKw(s, k, v) \/ FilterNotQ(s, k, v)) =>
              /\ ret'.val \notin SQs
              /\ \A t \in SQs :
                   Compiled(qheap', queries', sqs'[t]).s = CompiledOf(t)]_vars

\* C2: for 0 <= a <= b with a <= MAX_OFFSET and b - a <= MAX_LIMIT, q[a:b] is
\* a new query with offset a and limit b - a, and the window of q is as it was.
C2_SliceSetsWindow ==
    [][\A s \in SQs, start \in StartInputs, stop \in StopInputs :
          ( /\ ~start.none /\ ~stop.none
            /\ 0 <= start.n /\ start.n <= stop.n
            /\ start.n <= MAX_OFFSET /\ stop.n - start.n <= MAX_LIMIT
            /\ GetItemSlice(s, start, stop, Nil) ) =>
              /\ ret'.kind = "query"
              /\ ret'.val \notin SQs
              /\ sqs'[ret'.val].offset = start.n
              /\ sqs'[ret'.val].limit = stop.n - start.n
              /\ Window(sqs'[s]) = Window(sqs[s])]_vars

\* the slice bounds the claim C3 names: a negative start, a start above
\* MAX_OFFSET, a stop below the start, a width above MAX_LIMIT
OutOfBounds(start, stop) ==
    \/ ~start.none /\ start.n < 0
    \/ ~start.none /\ start.n > MAX_OFFSET
    \/ ~stop.none /\ stop.n < (IF start.none THEN 0 ELSE start.n)
    \/ ~stop.none /\ stop.n - (IF start.none THEN 0 ELSE start.n) > MAX_LIMIT

\* C3: slicing with out-of-bounds slice bounds, or indexing with a negative
\* index or one above MAX_OFFSET, raises IndexError; no search is issued and
\* no query (its window and caches included) is changed: a step that does
\* not raise IndexError, or that changes a query or issues a search, is no
\* such call.
C3_OutOfBoundsRaisesIndexError ==
    [][\/ /\ ret'.kind = "IndexError"
          /\ UNCHANGED <<sqs, searches, lastSearch>>
       \/ /\ \A start \in StartInputs, stop \in StopInputs :
                OutOfBounds(start, stop) =>
                    \A s \in SQs, step \in StepInputs :
                        ~GetItemSlice(s, start, stop, step)
          /\ \A i \in IndexInputs :
                (i < 0 \/ i > MAX_OFFSET) =>
                    \A s \in SQs : ~GetItemIndex(s, i)]_vars

\* a too-wide slice was refused on a query that has executed and cached
C3_Witness ==
    /\ ret = Ret("IndexError", "Slice is too large, it must be smaller than 1000")
    /\ searches > 0
    /\ \E s \in SQs : sqs[s].results_cache.set /\ sqs[s].results_response.set

\* C4: count() on a query that has not executed runs the search with offset 0
\* and limit 1 when no window was set, returns the platform's number_found
\* and leaves the query with the default window; when a window was set it
\* runs the search with that window and the query keeps that window.
C4_CountKeepsExplicitWindow ==
    [][\A s \in SQs :
          (sqs[s].number_found.none /\ Count(s)) =>
              /\ ret' = Ret("int", Len(index))
              /\ searches' = searches + 1
              /\ IF sqs[s].has_set_limits
                 THEN /\ lastSearch'.offset = sqs[s].offset
                      /\ lastSearch'.limit = sqs[s].limit
                      /\ Window(sqs'[s]) = Window(sqs[s])
                 ELSE /\ lastSearch'.offset = 0
                      /\ lastSearch'.limit = 1
                      /\ Window(sqs'[s]) = <<0, MAX_LIMIT, FALSE>>]_vars

\* an iteration of the query sq that began after its first iterator was
\* exhausted, and has itself finished
LateAndFinished(sq, i) == sq.replays[i].late /\ sq.replays[i].done

\* C5: once the first iterator of a query is exhausted, an iteration begun
\* later yields, in order, the results the first one yielded (Documents, or
\* ids in ids-only mode); the cache and the response are never replaced and
\* no call on the query issues a search.
C5_ReplayFromCache ==
    /\ [](\A s \in SQs : \A i \in 1..Len(sqs[s].replays) :
            LateAndFinished(sqs[s], i) =>
                /\ sqs[s].replays[i].yielded = sqs[s].results_cache.items
                /\ sqs[s].results_cache.items
                     = Results(sqs[s], sqs[s].results_response.results))
    /\ [][\A s \in SQs :
            sqs[s].gen.state = "done" =>
                /\ sqs'[s].results_cache = sqs[s].results_cache
                /\ sqs'[s].results_response = sqs[s].results_response
                /\ sqs'[s] # sqs[s] => UNCHANGED <<searches, lastSearch>>]_vars

\* two documents were yielded, the iterator was exhausted, and a later
\* iteration has finished; the same for an ids-only query
C5_Witness ==
    \E s \in SQs, t \in SQs :
        /\ ~sqs[s].ids_only /\ sqs[t].ids_only
        /\ sqs[s].gen.state = "done" /\ sqs[t].gen.state = "done"
        /\ Len(sqs[s].replays) >= 1 /\ LateAndFinished(sqs[s], 1)
        /\ Len(sqs[t].replays) >= 1 /\ LateAndFinished(sqs[t], 1)
        /\ Len(sqs[s].replays[1].yielded) = 2
        /\ Len(sqs[t].replays[1].yielded) = 2

-----------------------------------------------------------------------------
(* Q over a list value: Q(field__in=[v1, ..., vn]) and the chain           *)
(* Q(field=v1) | ... | Q(field=vn) built by hand                           *)

MaxList == 3

\* Q.get_filters: the (key, value) pairs at the leaves, left to right
RECURSIVE GetFilters(_, _)
GetFilters(h, children) ==
    IF children = <<>> THEN <<>>
    ELSE (IF Head(children).tag = "q"
          THEN GetFilters(h, h[Head(children).ref].children)
          ELSE <<Head(children)>>)
         \o GetFilters(h, Tail(children))

ListFields == {"foo", "x"}

ListValues == {IntV(1), IntV(2), StrV("a")}

\* the non-empty lists of at most MaxList values
ListInputs == UNION {[1..n -> ListValues] : n \in 1..MaxList}

\* q = Q(field__in=vs)
QIn(k, vs) ==
    /\ qheap = <<>>
    /\ LET r == QInit(qheap, <<KwList(k \o SEPARATOR \o "in", vs)>>)
       IN  /\ qheap' = r.heap
           /\ ret' = Ret("q", r.id)
    /\ QFrame

\* q = Q(field=v)
QFirst(k, v) ==
    /\ qheap = <<>>
    /\ LET r == QInit(qheap, <<Kw(k, v)>>)
       IN  /\ qheap' = r.heap
           /\ ret' = Ret("q", r.id)
    /\ QFrame

\* the state holds a chain built by hand: its last node is no Q(k=[...])
HoldsChain ==
    /\ qheap # <<>>
    /\ \A i \in 1..Len(qheap[ret.val].kwargs) : ~qheap[ret.val].kwargs[i].isList

\* q = q | Q(field=v), q being the chain built so far
QOrNext(v) ==
    /\ HoldsChain
    /\ Len(GetFilters(qheap, <<Ref(ret.val)>>)) < MaxList
    /\ LET leaf == QInit(qheap, <<Kw(qheap[1].kwargs[1].k, v)>>)
           r == Combine(leaf.heap, ret.val, leaf.id, OR)
       IN  /\ qheap' = r.heap
           /\ ret' = Ret("q", r.id)
    /\ QFrame

NextIn ==
    \/ \E k \in ListFields, vs \in ListInputs : QIn(k, vs)
    \/ \E k \in ListFields, v \in ListValues : QFirst(k, v)
    \/ \E v \in ListValues : QOrNext(v)

SpecIn == InitQ /\ [][NextIn]_vars

\* the rendering of Q(k=vs[1]) | ... | Q(k=vs[n]), built on a heap of its own
RECURSIVE ChainOf(_, _, _, _)
ChainOf(h, q, k, rest) ==
    IF rest = <<>> THEN UnparseFilter(h, Ref(q)).s
    ELSE LET leaf == QInit(h, <<Kw(k, Head(rest))>>)
             both == Combine(leaf.heap, q, leaf.id, OR)
         IN  ChainOf(both.heap, both.id, k, Tail(rest))

ChainRendering(k, vs) ==
    LET first == QInit(<<>>, <<Kw(k, vs[1])>>)
    IN  ChainOf(first.heap, first.id, k, Tail(vs))

\* the state holds Q(k__in=vs) and nothing else
HoldsIn(k, vs) ==
    /\ qheap # <<>>
    /\ ret.kind = "q"
    /\ qheap[ret.val].kwargs = <<KwList(k \o SEPARATOR \o "in", vs)>>

\* the values of the pairs
RECURSIVE ValuesOf(_)
ValuesOf(pairs) ==
    IF pairs = <<>> THEN <<>> ELSE <<Head(pairs).v>> \o ValuesOf(Tail(pairs))

\* C11 as amended: Q(field__in=[v1, ..., vn]) renders as the rendering of
\* Q(field=v1) | ... | Q(field=vn) inside one more pair of parentheses, and
\* the leaves of its tree are the scalar comparisons of field__in with v1,
\* ..., vn, in this order; a chain built by hand with | renders as the chain.
C11_InRendersChainInParentheses ==
    /\ \A k \in ListFields, vs \in ListInputs :
         HoldsIn(k, vs) =>
             LET leaves == GetFilters(qheap, <<Ref(ret.val)>>)
             IN  /\ Rendered(ret.val) = "(" \o ChainRendering(k, vs) \o ")"
                 /\ ValuesOf(leaves) = vs
                 /\ \A i \in 1..Len(leaves) :
                      /\ leaves[i].tag = "pair"
                      /\ leaves[i].k = k \o SEPARATOR \o "in"
                      /\ leaves[i].v.t \in {"int", "str"}
    /\ HoldsChain =>
         Rendered(ret.val)
           = ChainRendering(qheap[1].kwargs[1].k,
                            ValuesOf(GetFilters(qheap, <<Ref(ret.val)>>)))

\* Q(foo__in=[1, 2, "a"]) was built, and renders as the chain in parentheses
C11_Witness ==
    /\ HoldsIn("foo", <<IntV(1), IntV(2), StrV("a")>>)
    /\ Rendered(ret.val) = "((((foo:\"1\") OR (foo:\"2\")) OR (foo:\"a\")))"

\* C11 as stated: Q(field__in=[v1, ..., vn]) renders to the same string as
\* Q(field=v1) | ... | Q(field=vn).
C11_InRendersAsChain ==
    \A k \in ListFields, vs \in ListInputs :
        HoldsIn(k, vs) => Rendered(ret.val) = ChainRendering(k, vs)

-----------------------------------------------------------------------------
(* ql.Query used directly: query = Query(FakeDocument), then add_keywords  *)
(* and add_q                                                               *)

MaxQueryNodes == 6
MaxQueryKeywords == 2

QueryKeywordInputs == {"hello", "foo bar", "^"}

\* the Q objects handed to add_q: Q(x=1), Q(foo=42), Q(foo=128) and one
\* over a field that FakeDocument does not declare, Q(zz__gt=1)
QueryKwargsInputs ==
    { <<Kw("x", IntV(1))>>, <<Kw("foo", IntV(42))>>, <<Kw("foo", IntV(128))>>,
      <<Kw("zz" \o SEPARATOR \o "gt", IntV(1))>> }

\* no connective given, or one of Q.AND and Q.OR
ConnInputs == {"", AND, OR}

\* query = Query(FakeDocument)
InitQuery ==
    /\ qheap = <<>>
    /\ queries = <<NewQuery>>
    /\ sqs = <<>>
    /\ index = <<>>
    /\ searches = 0
    /\ lastSearch = NoSearch
    /\ ret = Ret("none", 0)
    /\ field = NoField
    /\ doc = NoDocument
    /\ InitDjango

QueryFrame == UNCHANGED <<sqs, index, searches, lastSearch, field, doc, django>>

\* query.add_keywords(keywords)
QueryAddKeywords(keywords) ==
    /\ Len(queries[1].keywords) < MaxQueryKeywords
    /\ queries' = [queries EXCEPT ![1] = AddKeywords(@, keywords)]
    /\ ret' = Ret("query", 1)
    /\ UNCHANGED qheap
    /\ QueryFrame

\* query.add_q(Q(**kwargs), conn), or query.add_q(~Q(**kwargs), conn)
QueryAddQ(kwargs, inverted, conn) ==
    /\ Len(qheap) + (IF inverted THEN 2 ELSE 1)
          + (IF queries[1].gathered = 0 THEN 0 ELSE 1) <= MaxQueryNodes
    /\ LET Added(r) ==
               /\ qheap' = r.heap
               /\ queries' = [queries EXCEPT ![1] = r.query]
           Built(q) == Added(AddQ(q.heap, queries[1], q.id, conn))
           Made(q) == Built(IF inverted THEN Invert(q.heap, q.id) ELSE q)
       IN  Made(QInit(qheap, kwargs))
    /\ ret' = Ret("query", 1)
    /\ QueryFrame

NextQuery ==
    \/ \E keywords \in QueryKeywordInputs : QueryAddKeywords(keywords)
    \/ \E kwargs \in QueryKwargsInputs, inverted \in BOOLEAN,
          conn \in ConnInputs : QueryAddQ(kwargs, inverted, conn)

SpecQuery == InitQuery /\ [][NextQuery]_vars

-----------------------------------------------------------------------------
(* Properties of Query *)

TheQuery == queries[1]
HasTree == TheQuery.gathered # 0
QueryString == BuildQuery(qheap, TheQuery)

\* every keyword cleaned, the results joined by spaces
CleanedKeywords ==
    Join(" ", [i \in 1..Len(TheQuery.keywords) |-> Clean(TheQuery.keywords[i])])

FiltersCompile == HasTree => UnparseFilter(qheap, Ref(TheQuery.gathered)).err = ""

\* C12 (amended): when the filter tree compiles, the query string is
\* '<keywords> AND <filters>' when the Query has a filter tree and its
\* space-joined cleaned keywords are not empty, the filter rendering alone
\* when it has a filter tree and no keywords or only keywords that clean to
\* nothing, the space-joined cleaned keywords when it has no filter tree, and
\* so the empty string when it has neither.
C12_QueryStringByCases ==
    FiltersCompile =>
        /\ QueryString.err = ""
        /\ QueryString.s =
              IF HasTree /\ CleanedKeywords # ""
              THEN CleanedKeywords \o " AND " \o Rendered(TheQuery.gathered)
              ELSE IF HasTree THEN Rendered(TheQuery.gathered)
              ELSE CleanedKeywords
        /\ (~HasTree /\ TheQuery.keywords = <<>>) => QueryString.s = ""
        /\ (~HasTree /\ TheQuery.keywords = <<"foo bar">>) => QueryString.s = "foo bar"

C12_Witness ==
    /\ TheQuery.keywords = <<"hello">>
    /\ HasTree
    /\ IsLeaf(TheQuery.gathered, "x", IntV(1), FALSE)
    /\ QueryString = [err |-> "", s |-> "hello AND (x:\"1\")"]

\* C12 as stated: a Query that has keywords and a filter tree compiles to
\* '<keywords> AND <filters>'.
C12_KeywordsAndFilters ==
    (FiltersCompile /\ HasTree /\ TheQuery.keywords # <<>>) =>
        QueryString.s = CleanedKeywords \o " AND " \o Rendered(TheQuery.gathered)

\* the Q that add_q was handed in the step: the node built last before the
\* combination, if any
HandedQ(h, combined) == IF combined THEN Len(h) - 1 ELSE Len(h)

\* C13: add_q(q) on a Query without a gathered tree makes q the root, and on
\* a Query holding a tree T it makes the root a new node whose children are
\* T and q, joined by AND when no connective is supplied and by the supplied
\* connective otherwise; T and q are left as they were.
C13_AddQCombines ==
    [][\A kwargs \in QueryKwargsInputs, inverted \in BOOLEAN, conn \in ConnInputs :
          QueryAddQ(kwargs, inverted, conn) =>
              LET T == TheQuery.gathered
                  root == queries'[1].gathered
                  q == HandedQ(qheap', T # 0)
              IN  /\ SubSeq(qheap', 1, Len(qheap)) = qheap
                  /\ qheap'[q].kwargs = kwargs
                  /\ qheap'[q].inverted = inverted
                  /\ IF T = 0 THEN root = q
                     ELSE /\ root = Len(qheap')
                          /\ root \notin {T, q}
                          /\ qheap'[root] =
                                Node(<<>>, <<Ref(T), Ref(q)>>,
                                     IF conn = "" THEN AND ELSE conn, FALSE)
                  /\ queries'[1].keywords = TheQuery.keywords]_vars

C13_Witness ==
    /\ HasTree
    /\ IsCombination(TheQuery.gathered)
    /\ qheap[TheQuery.gathered].conn = OR
    /\ QueryString = [err |-> "", s |-> "((foo:\"42\") OR (foo:\"128\"))"]

\* the part of a leaf's keyword before the operator suffix
FieldName(k) ==
    LET i == Find(k, SEPARATOR, 1) IN IF i = 0 THEN k ELSE SubSeq(k, 1, i - 1)

\* the depth at which the tree holds a leaf over an undeclared field: 0 when
\* it holds none, 1 for the pair itself, 2 for the pair of the root node
RECURSIVE UndeclaredDepth(_)
UndeclaredIn(trees) ==
    LET ds == {UndeclaredDepth(trees[i]) : i \in 1..Len(trees)} \ {0}
    IN  IF ds = {} THEN 0 ELSE 1 + CHOOSE d \in ds : \A e \in ds : e <= d

UndeclaredDepth(tree) ==
    IF tree.tag = "pair"
    THEN (IF FieldName(tree.k) \in DocFields THEN 0 ELSE 1)
    ELSE UndeclaredIn(tree.children)

GatheredTree == TreeOf(qheap, Ref(TheQuery.gathered))

-----------------------------------------------------------------------------
(* Filters over the DateField bar of FakeDocument *)

DateYears == {1899, 1900, 2020}
DateMonths == {1, 12}
DateDays == {1, 31}

DateInputs ==
    {DateV(y, m, d) : y \in DateYears, m \in DateMonths, d \in DateDays}
        \cup {DateTimeV(y, m, d) : y \in DateYears, m \in DateMonths, d \in DateDays}

\* the lookups bar__gt, bar__gte, bar__lt, bar__lte and bar
DateOpInputs == {"gt", "gte", "lt", "lte", ""}

DateLookup(op) == IF op = "" THEN "bar" ELSE "bar" \o SEPARATOR \o op

\* query = Query(FakeDocument); query.add_q(Q(bar__<op>=d)); str(query)
DateFilter(op, d) ==
    /\ queries[1].gathered = 0
    /\ LET Compiled1(r) ==
               /\ qheap' = r.heap
               /\ queries' = [queries EXCEPT ![1] = r.query]
               /\ ret' = Ret("str", BuildQuery(r.heap, r.query))
           Added(q) == Compiled1(AddQ(q.heap, queries[1], q.id, ""))
       IN  Added(QInit(qheap, <<Kw(DateLookup(op), d)>>))
    /\ QueryFrame

NextDate == \E op \in DateOpInputs, d \in DateInputs : DateFilter(op, d)

SpecDate == InitQuery /\ [][NextDate]_vars

\* the date of the one leaf of the compiled filter, and its operator
FilteredDate == qheap[1].kwargs[1].vals[1]
FilteredOp(op) == HasTree /\ qheap[1].kwargs[1].k = DateLookup(op)

\* C15: Q(bar__gt=d) compiles to '(bar > <d as YYYY-MM-DD> AND NOT
\* bar:9999-12-31)' and Q(bar__lt=d) to '(bar < <d as YYYY-MM-DD>)', for
\* every date d.
C15_GtExcludesSentinel ==
    /\ FilteredOp("gt") =>
          ret.val = [err |-> "",
                     s |-> "(bar > " \o IsoFormat(FilteredDate)
                              \o " AND NOT bar:9999-12-31)"]
    /\ FilteredOp("lt") =>
          ret.val = [err |-> "", s |-> "(bar < " \o IsoFormat(FilteredDate) \o ")"]

\* the same for the dates of 1900 and later, with >= adding the clause as >
\* does and <= and the exact match leaving it out
SentinelClauseFrom1900 ==
    (HasTree /\ YearOf(FilteredDate) >= 1900) =>
        /\ C15_GtExcludesSentinel
        /\ FilteredOp("gte") =>
              ret.val.s = "(bar >= " \o IsoFormat(FilteredDate)
                             \o " AND NOT bar:9999-12-31)"
        /\ FilteredOp("lte") => ret.val.s = "(bar <= " \o IsoFormat(FilteredDate) \o ")"
        /\ FilteredOp("") => ret.val.s = "(bar:\"" \o IsoFormat(FilteredDate) \o "\")"

-----------------------------------------------------------------------------
(* Python values handed to fields, and the built-ins the fields apply      *)

\* the float whole + tenth / 10, with whole its floor
FloatV(whole, tenth) == [t |-> "float", s |-> "", n |-> whole, f |-> tenth]
BoolV(b) == [t |-> "bool", s |-> "", n |-> IF b THEN 1 ELSE 0, f |-> 0]

\* datetime.datetime(y, m, d, 12, 30, 0, microsecond)
DateTimeMicroV(y, m, d, microsecond) ==
    [t |-> "datetime", s |-> "", n |-> y * 10000 + m * 100 + d, f |-> microsecond]

\* datetime.datetime(y, m, d, 12, 30, 0, tzinfo=timezone.utc)
AwareV(y, m, d) == [t |-> "aware", s |-> "", n |-> y * 10000 + m * 100 + d, f |-> 0]

\* search_api.GeoPoint(latitude=n, longitude=n)
GeoPointV(n) == [t |-> "geopoint", s |-> "", n |-> n, f |-> 0]

\* IndexedValue(s), a unicode subclass
IndexedV(str) == [t |-> "indexed", s |-> str, n |-> 0, f |-> 0]

\* the class NOT_SET, as the value of Field.default
NOT_SET == [t |-> "NOT_SET", s |-> "", n |-> 0, f |-> 0]

\* what a call returns, or the exception it raises
Returns(v) == [err |-> "", v |-> v]
Raises(err) == [err |-> err, v |-> NoneV]

IsNumber(v) == v.t \in {"int", "float", "bool"}
IsText(v) == v.t \in {"str", "indexed"}

\* a == b
PyEq(a, b) ==
    IF IsNumber(a) /\ IsNumber(b) THEN a.n = b.n /\ a.f = b.f
    ELSE IF IsText(a) /\ IsText(b) THEN a.s = b.s
    ELSE a = b

\* a < b, for numbers
PyLess(a, b) == a.n < b.n \/ (a.n = b.n /\ a.f < b.f)

\* bool(v), as `or` and `if` take it
Truthy(v) ==
    CASE v.t = "none" -> FALSE
      [] IsNumber(v) -> v.n # 0 \/ v.f # 0
      [] IsText(v) -> v.s # ""
      [] OTHER -> TRUE

IsDigits(str) ==
    /\ str # ""
    /\ \A i \in 1..Len(str) : Contains("0123456789", Char(str, i))

DigitValue(c) == Find("0123456789", c, 1) - 1

RECURSIVE DigitsToNat(_)
DigitsToNat(str) ==
    IF str = "" THEN 0
    ELSE 10 * DigitsToNat(SubSeq(str, 1, Len(str) - 1)) + DigitValue(Char(str, Len(str)))

\* int(v)
PyInt(v) ==
    CASE v.t \in {"int", "bool"} -> Returns(IntV(v.n))
      [] v.t = "float" -> Returns(IntV(IF v.n < 0 /\ v.f > 0 THEN v.n + 1 ELSE v.n))
      [] IsText(v) -> IF IsDigits(v.s) THEN Returns(IntV(DigitsToNat(v.s)))
                      ELSE Raises("ValueError")
      [] OTHER -> Raises("TypeError")

\* float(v); the strings of the model that it parses are 'ddd' and 'ddd.d'
PyFloat(v) ==
    CASE v.t \in {"int", "bool"} -> Returns(FloatV(v.n, 0))
      [] v.t = "float" -> Returns(v)
      [] IsText(v) ->
            LET dot == Find(v.s, ".", 1)
                whole == IF dot = 0 THEN v.s ELSE SubSeq(v.s, 1, dot - 1)
                tenth == IF dot = 0 THEN "0" ELSE SubSeq(v.s, dot + 1, Len(v.s))
            IN  IF IsDigits(whole) /\ IsDigits(tenth) /\ Len(tenth) = 1
                THEN Returns(FloatV(DigitsToNat(whole), DigitValue(tenth)))
                ELSE Raises("ValueError")
      [] OTHER -> Raises("TypeError")

\* the days from 1970-01-01 to the date of a date or datetime value
DaysFromCivil(v) ==
    LET y == IF MonthOf(v) <= 2 THEN YearOf(v) - 1 ELSE YearOf(v)
        era == y \div 400
        yoe == y - era * 400
        mp == IF MonthOf(v) > 2 THEN MonthOf(v) - 3 ELSE MonthOf(v) + 9
        doy == (153 * mp + 2) \div 5 + DayOf(v) - 1
        doe == yoe * 365 + yoe \div 4 - yoe \div 100 + doy
    IN  era * 146097 + doe - 719468

\* the date that lies the given number of days after 1970-01-01, as y*10000 +
\* m*100 + d
CivilFromDays(days) ==
    LET z == days + 719468
        era == z \div 146097
        doe == z - era * 146097
        yoe == (doe - doe \div 1460 + doe \div 36524 - doe \div 146096) \div 365
        doy == doe - (365 * yoe + yoe \div 4 - yoe \div 100)
        mp == (5 * doy + 2) \div 153
        d == doy - (153 * mp + 2) \div 5 + 1
        m == IF mp < 10 THEN mp + 3 ELSE mp - 9
        y == yoe + era * 400 + (IF m <= 2 THEN 1 ELSE 0)
    IN  y * 10000 + m * 100 + d

\* 12:30:00, the time of day of the datetime values of the model, in seconds
TimeOfDay == 45000

-----------------------------------------------------------------------------
(* fields.py: the Field classes *)

MAX_SEARCH_API_INT == 2147483647
MIN_SEARCH_API_INT == -MAX_SEARCH_API_INT

MAX_SEARCH_API_FLOAT == FloatV(MAX_SEARCH_API_INT, 0)
MIN_SEARCH_API_FLOAT == FloatV(MIN_SEARCH_API_INT, 0)

FieldClasses ==
    {"Field", "TextField", "FloatField", "IntegerField", "BooleanField",
     "DateField", "DateTimeField", "TZDateTimeField", "GeoField"}

\* minimum or MIN_SEARCH_API_INT, maximum or MAX_SEARCH_API_INT
OrBound(bound, fallback) == IF Truthy(bound) THEN bound ELSE fallback

\* the __init__ of the classes: the Field object, or the exception.  An
\* argument the caller leaves out is passed as the parameter's default:
\* NOT_SET or None for default, None for minimum, maximum and indexer.
NewField(cls, default, null, minimum, maximum, indexer) ==
    LET f == [cls |-> cls, default |-> default, null |-> null,
              minimum |-> NoneV, maximum |-> NoneV, indexer |-> FALSE]
    IN  CASE cls = "GeoField" ->
                IF null \/ Truthy(default) THEN [err |-> "AssertionError", f |-> f]
                ELSE [err |-> "", f |-> [f EXCEPT !.default = NoneV, !.null = FALSE]]
          [] cls = "FloatField" ->
                [err |-> "",
                 f |-> [f EXCEPT !.minimum = OrBound(minimum, MIN_SEARCH_API_FLOAT),
                                 !.maximum = OrBound(maximum, MAX_SEARCH_API_FLOAT)]]
          [] cls = "IntegerField" ->
                [err |-> "",
                 f |-> [f EXCEPT !.minimum = OrBound(minimum, IntV(MIN_SEARCH_API_INT)),
                                 !.maximum = OrBound(maximum, IntV(MAX_SEARCH_API_INT))]]
          [] cls = "TextField" -> [err |-> "", f |-> [f EXCEPT !.indexer = indexer]]
          [] OTHER -> [err |-> "", f |-> f]

\* none_value of the classes
NoneValue(f) ==
    CASE f.cls = "TextField" -> StrV("___NONE___")
      [] f.cls = "FloatField" -> MIN_SEARCH_API_FLOAT
      [] f.cls \in {"IntegerField", "BooleanField", "DateTimeField", "TZDateTimeField"} ->
            IntV(MIN_SEARCH_API_INT)
      [] f.cls = "DateField" -> DateV(9999, 12, 31)
      [] OTHER -> NoneV

\* Field.to_search_value
FieldToSearchValue(f, value) ==
    IF value.t = "none"
    THEN IF f.null THEN Returns(NoneValue(f))
         ELSE IF f.default = NOT_SET THEN Raises("FieldError")
         ELSE Returns(f.default)
    ELSE Returns(value)

\* indexers._startswith(string): the string, then its proper prefixes that
\* are not in the list yet
StartsWith(str) == <<str>> \o [i \in 1..(Len(str) - 1) |-> SubSeq(str, 1, i)]

\* TextField.to_search_value; the indexer of the model is indexers._startswith
TextToSearchValue(f, value) ==
    LET Text(r) ==
            IF r.err # "" THEN r
            ELSE IF r.v.t = "none" THEN Returns(NoneValue(f))
            ELSE IF r.v.t = "indexed" THEN r
            ELSE IF f.indexer
            THEN (IF r.v.t = "str" THEN Returns(IndexedV(Join(" ", StartsWith(r.v.s))))
                  ELSE Raises("TypeError"))
            ELSE r
    IN  Text(FieldToSearchValue(f, value))

\* FloatField.to_search_value and IntegerField.to_search_value, which differ
\* in the cast
NumberToSearchValue(f, value, cast) ==
    LET Cast(v) == IF cast = "float" THEN PyFloat(v) ELSE PyInt(v)
        Ranged(c) ==
            IF c.err # "" THEN c
            ELSE IF PyLess(c.v, f.minimum) \/ PyLess(f.maximum, c.v)
            THEN Raises("ValueError")
            ELSE c
        Number(r) ==
            IF r.err # "" THEN r
            ELSE IF r.v.t = "none" \/ PyEq(r.v, NoneValue(f)) THEN Returns(NoneValue(f))
            ELSE Ranged(Cast(r.v))
    IN  Number(FieldToSearchValue(f, value))

\* BooleanField.to_search_value
BooleanToSearchValue(f, value) ==
    LET Cast(v, c) ==
            IF c.err = "ValueError" THEN c
            ELSE IF c.err = "TypeError" THEN Returns(IntV(IF Truthy(v) THEN 1 ELSE 0))
            ELSE Returns(IntV(IF Truthy(c.v) THEN 1 ELSE 0))
        Boolean(r) ==
            IF r.err # "" THEN r
            ELSE IF r.v.t = "none" \/ PyEq(r.v, NoneValue(f)) THEN Returns(NoneValue(f))
            ELSE Cast(r.v, PyInt(r.v))
    IN  Boolean(FieldToSearchValue(f, value))

\* datetime.strptime(value, '%Y-%m-%d').date(), for the strings 'dddd-dd-dd'
ParseDate(str) ==
    IF /\ Len(str) = 10
       /\ Char(str, 5) = "-" /\ Char(str, 8) = "-"
       /\ IsDigits(SubSeq(str, 1, 4)) /\ IsDigits(SubSeq(str, 6, 7))
       /\ IsDigits(SubSeq(str, 9, 10))
    THEN Returns(DateV(DigitsToNat(SubSeq(str, 1, 4)), DigitsToNat(SubSeq(str, 6, 7)),
                       DigitsToNat(SubSeq(str, 9, 10))))
    ELSE Raises("ValueError")

\* DateField.to_search_value
DateToSearchValue(f, value) ==
    LET Date(r) ==
            IF r.err # "" THEN r
            ELSE CASE r.v.t = "none" -> Returns(NoneValue(f))
                   [] r.v.t = "aware" -> Raises("TypeError")
                   [] r.v.t \in {"datetime", "date"} -> r
                   [] IsText(r.v) -> ParseDate(r.v.s)
                   [] OTHER -> Raises("TypeError")
    IN  Date(FieldToSearchValue(f, value))

\* timezone.datetime_to_timestamp of a naive datetime, and the range check of
\* DateTimeField.to_search_value on it
Timestamp(v) ==
    LET InRange(days) ==
            IF days < -24855 \/ days > 24854 THEN Raises("ValueError")
            ELSE Returns(IntV(days * 86400 + TimeOfDay))
    IN  InRange(DaysFromCivil(v))

\* DateTimeField.to_search_value
DateTimeToSearchValue(f, value) ==
    LET DateTime(r) ==
            IF r.err # "" THEN r
            ELSE IF r.v.t = "none" \/ PyEq(r.v, NoneValue(f)) THEN Returns(NoneValue(f))
            ELSE CASE r.v.t = "aware" ->
                        IF r.v = f.default THEN Timestamp(r.v) ELSE Raises("TypeError")
                   [] r.v.t = "datetime" -> Timestamp(r.v)
                   [] OTHER -> Raises("AttributeError")
    IN  DateTime(FieldToSearchValue(f, value))

\* TZDateTimeField.to_search_value
TZDateTimeToSearchValue(f, value) ==
    CASE value.t = "datetime" -> Raises("TypeError")
      [] value.t = "aware" -> DateTimeToSearchValue(f, [value EXCEPT !.t = "datetime"])
      [] OTHER -> DateTimeToSearchValue(f, value)

\* GeoField.to_search_value
GeoToSearchValue(f, value) ==
    LET Geo(r) ==
            IF r.err # "" THEN r
            ELSE IF r.v.t = "geopoint" THEN r
            ELSE Raises("TypeError")
    IN  Geo(FieldToSearchValue(f, value))

\* f.to_search_value(value)
ToSearchValue(f, value) ==
    CASE f.cls = "TextField" -> TextToSearchValue(f, value)
      [] f.cls = "FloatField" -> NumberToSearchValue(f, value, "float")
      [] f.cls = "IntegerField" -> NumberToSearchValue(f, value, "int")
      [] f.cls = "BooleanField" -> BooleanToSearchValue(f, value)
      [] f.cls = "DateField" -> DateToSearchValue(f, value)
      [] f.cls = "DateTimeField" -> DateTimeToSearchValue(f, value)
      [] f.cls = "TZDateTimeField" -> TZDateTimeToSearchValue(f, value)
      [] f.cls = "GeoField" -> GeoToSearchValue(f, value)
      [] OTHER -> FieldToSearchValue(f, value)

\* timezone.timestamp_to_datetime: a time of day other than that of the
\* model's datetime values is kept, in seconds, in s
TimestampToDatetime(v) ==
    [t |-> "datetime",
     s |-> IF v.n % 86400 = TimeOfDay THEN "" ELSE NatToStr(v.n % 86400),
     n |-> CivilFromDays(v.n \div 86400), f |-> 0]

\* DateTimeField.to_python
DateTimeToPython(f, value) ==
    IF PyEq(value, NoneValue(f)) THEN Returns(NoneV)
    ELSE IF value.t \in {"int", "bool"} THEN Returns(TimestampToDatetime(value))
    ELSE Raises("TypeError")

\* f.to_python(value)
ToPython(f, value) ==
    CASE f.cls = "TextField" ->
            IF value.t = "none" \/ (IsText(value) /\ value.s \in {"None", "___NONE___"})
            THEN Returns(NoneV) ELSE Returns(value)
      [] f.cls = "FloatField" ->
            IF PyEq(value, NoneValue(f)) THEN Returns(NoneV) ELSE PyFloat(value)
      [] f.cls = "IntegerField" ->
            IF PyEq(value, NoneValue(f)) THEN Returns(NoneV) ELSE PyInt(value)
      [] f.cls = "BooleanField" ->
            IF PyEq(value, NoneValue(f)) THEN Returns(NoneV)
            ELSE LET Bool(c) == IF c.err # "" THEN c ELSE Returns(BoolV(c.v.n # 0))
                 IN  Bool(PyInt(value))
      [] f.cls = "DateField" ->
            IF value.t \in {"date", "datetime", "aware"}
            THEN (IF value.n = NoneValue(f).n THEN Returns(NoneV) ELSE Returns(value))
            ELSE Returns(NoneV)
      [] f.cls = "DateTimeField" -> DateTimeToPython(f, value)
      [] f.cls = "TZDateTimeField" ->
            LET Aware(r) ==
                    IF r.err # "" \/ r.v.t = "none" THEN r
                    ELSE Returns([r.v EXCEPT !.t = "aware"])
            IN  Aware(DateTimeToPython(f, value))
      [] OTHER -> Returns(value)

\* f.prep_value_from_search(value)
PrepValueFromSearch(f, value) ==
    CASE f.cls = "TextField" ->
            IF ~f.indexer THEN Returns(value)
            ELSE IF IsText(value) THEN Returns(IndexedV(value.s))
            ELSE Returns(IndexedV(ToUnicode(value)))
      [] f.cls = "BooleanField" ->
            LET Bool(c) == IF c.err # "" THEN c ELSE Returns(BoolV(c.v.n # 0))
            IN  Bool(PyInt(value))
      [] f.cls \in {"DateTimeField", "TZDateTimeField"} -> ToPython(f, value)
      [] OTHER -> Returns(value)

\* construct_document, for one field of the result: the value is prepared,
\* assigned to the new document (which converts it with to_search_value) and
\* then read (which converts what is held with to_python)
FromSearch(f, value) ==
    LET Read(assigned) ==
            IF assigned.err # "" THEN assigned ELSE ToPython(f, assigned.v)
        Assign(prepared) ==
            IF prepared.err # "" THEN prepared
            ELSE Read(ToSearchValue(f, prepared.v))
    IN  Assign(PrepValueFromSearch(f, value))

-----------------------------------------------------------------------------
(* A Field object, constructed and then called *)

\* the default arguments of the constructors
DefaultInputs(cls) ==
    CASE cls \in {"Field", "TextField"} -> {NOT_SET, StrV("THINGS")}
      [] cls = "FloatField" -> {NOT_SET, FloatV(3, 0)}
      [] cls = "IntegerField" -> {NOT_SET, IntV(3)}
      [] cls = "BooleanField" -> {NOT_SET, BoolV(TRUE), BoolV(FALSE)}
      [] cls = "DateField" -> {NOT_SET, DateV(2012, 8, 3)}
      [] cls = "DateTimeField" -> {NOT_SET, DateTimeV(2016, 12, 25), AwareV(2016, 12, 25)}
      [] cls = "TZDateTimeField" -> {NOT_SET, AwareV(2016, 12, 25)}
      [] OTHER -> {NoneV, GeoPointV(3)}

\* the <<minimum, maximum>> arguments of the constructors
BoundInputs(cls) ==
    CASE cls = "IntegerField" ->
            {<<NoneV, NoneV>>, <<IntV(2), IntV(4)>>, <<IntV(0), IntV(4)>>,
             <<IntV(-4), IntV(0)>>, <<IntV(-4), IntV(-2)>>}
      [] cls = "FloatField" ->
            {<<NoneV, NoneV>>, <<FloatV(2, 0), FloatV(4, 7)>>,
             <<FloatV(0, 0), FloatV(4, 7)>>, <<FloatV(-5, 3), FloatV(0, 0)>>,
             <<FloatV(-5, 3), FloatV(-2, 0)>>}
      [] OTHER -> {<<NoneV, NoneV>>}

IndexerInputs(cls) == IF cls = "TextField" THEN BOOLEAN ELSE {FALSE}

\* the constructor calls of a class: what each gives, a Field object or an
\* exception, and the bounds it was given
Constructed(cls) ==
    {[made |-> NewField(cls, default, null, bounds[1], bounds[2], indexer),
      minimum |-> bounds[1], maximum |-> bounds[2]] :
        default \in DefaultInputs(cls), null \in BOOLEAN,
        bounds \in BoundInputs(cls), indexer \in IndexerInputs(cls)}

\* the constructor calls that succeed
FieldInputs ==
    {c \in UNION {Constructed(cls) : cls \in FieldClasses} : c.made.err = ""}

\* the values handed to to_search_value
ValueInputs ==
    {NoneV, StrV("Hello"), StrV("987"), StrV("2.5"), StrV("2012-08-03"), StrV("None"),
     IndexedV("Hello"), BoolV(TRUE), BoolV(FALSE), IntV(MIN_SEARCH_API_INT), IntV(987),
     DateV(2012, 8, 3), DateV(9999, 12, 31), DateTimeV(2012, 8, 3),
     DateTimeMicroV(2012, 8, 3, 5), DateTimeV(1900, 1, 1), DateTimeV(2040, 1, 1),
     AwareV(2016, 12, 25), AwareV(2012, 8, 3), GeoPointV(4)}
        \cup {IntV(n) : n \in -5..5}
        \cup {FloatV(n, tenth) : n \in -7..5, tenth \in {0, 3, 7}}

\* f = <cls>(...): a Field object on which nothing was called yet
InitField ==
    /\ qheap = <<>>
    /\ queries = <<>>
    /\ sqs = <<>>
    /\ index = <<>>
    /\ searches = 0
    /\ lastSearch = NoSearch
    /\ ret = Ret("none", 0)
    /\ field \in {[f |-> c.made.f, minimum |-> c.minimum, maximum |-> c.maximum,
                   at |-> "new", value |-> NoneV, stored |-> Returns(NoneV),
                   read |-> Returns(NoneV)] : c \in FieldInputs}
    /\ doc = NoDocument
    /\ InitDjango

FieldFrame == UNCHANGED <<qheap, queries, sqs, index, searches, lastSearch, ret, doc, django>>

\* stored = f.to_search_value(value)
CallToSearchValue(value) ==
    /\ field.at = "new"
    /\ field' = [field EXCEPT !.at = "stored", !.value = value,
                              !.stored = ToSearchValue(field.f, value)]
    /\ FieldFrame

\* f.to_python(stored)
CallToPython ==
    /\ field.at = "stored"
    /\ field.stored.err = ""
    /\ field' = [field EXCEPT !.at = "read", !.read = ToPython(field.f, field.stored.v)]
    /\ FieldFrame

\* the index holds what to_search_value gave; a search returns it, and the
\* field is read on the document construct_document makes of the result
ConstructDocument ==
    /\ field.at = "stored"
    /\ field.stored.err = ""
    /\ field' = [field EXCEPT !.at = "found",
                              !.read = FromSearch(field.f, field.stored.v)]
    /\ FieldFrame

NextField ==
    \/ \E value \in ValueInputs : CallToSearchValue(value)
    \/ CallToPython
    \/ ConstructDocument

SpecField == InitField /\ [][NextField]_vars

\* the Unix timestamp of a datetime value of the model
TimestampOf(v) == IntV(DaysFromCivil(v) * 86400 + TimeOfDay)

\* the default is one the range check of a numeric field accepts
DefaultInRange(f) ==
    f.cls \in {"IntegerField", "FloatField"} =>
        ~PyLess(f.default, f.minimum) /\ ~PyLess(f.maximum, f.default)

\* what to_search_value(None) gives, class by class: none_value() for a
\* nullable field, but its indexed text for a TextField with an indexer;
\* FieldError for a field that is not nullable and has no default; for a
\* configured default of a field that is not nullable a value equal to it,
\* but ValueError for one outside the range of a numeric field, its indexed
\* text on a TextField with an indexer and its Unix timestamp on
\* DateTimeField and TZDateTimeField; TypeError on every GeoField
NoneOutcomes ==
    (field.at # "new" /\ field.value = NoneV) =>
        LET f == field.f
            out == field.stored
        IN  IF f.cls = "GeoField" THEN out = Raises("TypeError")
            ELSE IF f.null
            THEN (IF f.cls = "TextField" /\ f.indexer
                  THEN out = Returns(IndexedV(Join(" ", StartsWith("___NONE___"))))
                  ELSE out = Returns(NoneValue(f)))
            ELSE IF f.default = NOT_SET THEN out = Raises("FieldError")
            ELSE IF f.cls \in {"DateTimeField", "TZDateTimeField"}
            THEN out = Returns(TimestampOf(f.default))
            ELSE IF f.cls = "TextField" /\ f.indexer
            THEN out = Returns(IndexedV("THINGS T TH THI THIN THING"))
            ELSE IF ~DefaultInRange(f) THEN out = Raises("ValueError")
            ELSE out.err = "" /\ PyEq(out.v, f.default)

\* C16: for every field type, to_search_value(None) returns none_value()
\* when the field is nullable, the configured default when it is not nullable
\* and a default exists, and raises FieldError when it is not nullable and
\* has no default.
C16_NoneForEveryFieldType ==
    (field.at # "new" /\ field.value = NoneV) =>
        LET f == field.f
            out == field.stored
        IN  IF f.null THEN out = Returns(NoneValue(f))
            ELSE IF f.default \in {NOT_SET, NoneV} THEN out = Raises("FieldError")
            ELSE out.err = "" /\ PyEq(out.v, f.default)

RoundTripClasses == FieldClasses \ {"Field", "GeoField"}

\* C17: for a text field with or without an indexer and for an integer,
\* float, boolean, date, datetime or timezone-aware datetime field, every
\* value v that to_search_value accepts has to_python(to_search_value(v)) == v.
C17_RoundTrip ==
    (field.at = "read" /\ field.f.cls \in RoundTripClasses) =>
        field.read.err = "" /\ PyEq(field.read.v, field.value)

\* the values of the field's own Python type, its sentinels left out
OwnValue(f, v) ==
    CASE f.cls = "TextField" ->
            ~f.indexer /\ v.t = "str" /\ v.s \notin {"None", "___NONE___"}
      [] f.cls \in {"IntegerField", "BooleanField"} ->
            v.t \in {"int", "bool"} /\ v.n # MIN_SEARCH_API_INT
               /\ (f.cls = "BooleanField" => v.n \in {0, 1})
      [] f.cls = "FloatField" -> IsNumber(v) /\ ~PyEq(v, MIN_SEARCH_API_FLOAT)
      [] f.cls = "DateField" -> v.t \in {"date", "datetime"} /\ v.n # NoneValue(f).n
      [] f.cls = "DateTimeField" -> v.t = "datetime" /\ v.f = 0
      [] f.cls = "TZDateTimeField" -> v.t = "aware"
      [] OTHER -> TRUE

\* the round trip holds for the accepted values of the field's own type, and
\* for None on a nullable field that has no indexer
RoundTripOfOwnValues ==
    (/\ field.at = "read"
     /\ \/ field.value # NoneV /\ OwnValue(field.f, field.value)
        \/ field.value = NoneV /\ field.f.null /\ ~field.f.indexer) =>
        field.read.err = "" /\ PyEq(field.read.v, field.value)

\* v lies one unit or more below the bound
UnitBelow(v, bound) == v.n + 1 < bound.n \/ (v.n + 1 = bound.n /\ v.f <= bound.f)

GivenBounds == field.minimum # NoneV /\ field.maximum # NoneV

\* C18: an IntegerField or FloatField constructed with a minimum and a
\* maximum, 0 and negative bounds included, returns the value for an input
\* equal to minimum or to maximum and raises ValueError for every input one
\* unit or more below minimum or above maximum.
C18_BoundsAreInclusive ==
    (/\ field.at # "new"
     /\ field.f.cls \in {"IntegerField", "FloatField"}
     /\ GivenBounds
     /\ IsNumber(field.value) /\ field.value.t # "bool") =>
        /\ (PyEq(field.value, field.minimum) \/ PyEq(field.value, field.maximum)) =>
              field.stored.err = "" /\ PyEq(field.stored.v, field.value)
        /\ (UnitBelow(field.value, field.minimum) \/ UnitBelow(field.maximum, field.value)) =>
              field.stored = Raises("ValueError")

\* the same for the bounds that are not 0 and the inputs other than the
\* field's none_value
BoundsAreInclusiveUnlessZero ==
    (/\ Truthy(field.minimum) /\ Truthy(field.maximum)
     /\ ~PyEq(field.value, NoneValue(field.f))) => C18_BoundsAreInclusive

-----------------------------------------------------------------------------
(* indexes.py: a document class and one instance of it                     *)
(*                                                                         *)
(*   class TestDocument(DocumentModel):                                    *)
(*       foo = TextField()                                                 *)
(*       n = IntegerField(minimum=2, maximum=4, null=False)                *)
(*       bar = DateField()                                                 *)

\* TestDocument._meta.fields
MetaFieldNames == {"foo", "n", "bar"}

MetaFields(name) ==
    CASE name = "foo" -> NewField("TextField", NOT_SET, TRUE, NoneV, NoneV, FALSE).f
      [] name = "n" -> NewField("IntegerField", NOT_SET, FALSE, IntV(2), IntV(4), FALSE).f
      [] name = "bar" -> NewField("DateField", NOT_SET, TRUE, NoneV, NoneV, FALSE).f

\* the attributes of the instance that are no declared fields
PlainNames == {"doc_id", "_rank"}

AttrNames == MetaFieldNames \cup PlainNames

\* a __setattr__ that stores the value it is given once the conversion has
\* accepted it
SetAttrKeepsPythonValue(d, name, val) ==
    IF name \in MetaFieldNames
    THEN LET Store(r) ==
                 IF r.err # "" THEN [err |-> r.err, dict |-> d]
                 ELSE [err |-> "", dict |-> [d EXCEPT ![name] = val]]
         IN  Store(ToSearchValue(MetaFields(name), val))
    ELSE [err |-> "", dict |-> [d EXCEPT ![name] = val]]

\* a __setattr__ that stores first and converts afterwards
SetAttrStoresThenConverts(d, name, val) ==
    IF name \in MetaFieldNames
    THEN LET Store(r) ==
                 IF r.err # "" THEN [err |-> r.err, dict |-> [d EXCEPT ![name] = val]]
                 ELSE [err |-> "", dict |-> [d EXCEPT ![name] = r.v]]
         IN  Store(ToSearchValue(MetaFields(name), val))
    ELSE [err |-> "", dict |-> [d EXCEPT ![name] = val]]

\* DocumentModel.__setattr__ on the instance dict d: the exception, if any,
\* and the dict afterwards
SetAttrOf(d, name, val) ==
    IF name \in MetaFieldNames
    THEN LET Store(r) ==
                 IF r.err # "" THEN [err |-> r.err, dict |-> d]
                 ELSE [err |-> "", dict |-> [d EXCEPT ![name] = r.v]]
         IN  Store(ToSearchValue(MetaFields(name), val))
    ELSE [err |-> "", dict |-> [d EXCEPT ![name] = val]]

\* DocumentModel.__getattribute__
GetAttrOf(d, name) ==
    IF name \in MetaFieldNames THEN ToPython(MetaFields(name), d[name])
    ELSE Returns(d[name])

\* unicode(kwargs.get('doc_id', '')).encode('utf-8') or None
NormalDocId(doc_id) ==
    IF ToUnicode(doc_id) = "" THEN NoneV ELSE StrV(ToUnicode(doc_id))

\* the values assigned to the attributes
AttrValues ==
    {NoneV, StrV("Hello"), IntV(3), IntV(5), DateV(2012, 8, 3), AwareV(2016, 12, 25)}

\* doc_id is '' and _rank is None when the keyword is left out
DocIdInputs == {StrV(""), IntV(5)}
RankInputs == {NoneV, IntV(3)}

DocFrame == UNCHANGED <<qheap, queries, sqs, index, searches, lastSearch, field, django>>

\* doc = TestDocument(foo=foo, n=n, bar=bar, doc_id=doc_id, _rank=rank): the
\* fields are assigned in the order of a dict, so that, of several failing
\* conversions, any may be the one that raises
DocInit(kwargs, doc_id, rank) ==
    /\ doc = NoDocument
    /\ LET failing == {name \in MetaFieldNames :
                          ToSearchValue(MetaFields(name), kwargs[name]).err # ""}
           d == [name \in AttrNames |->
                    CASE name \in MetaFieldNames ->
                            ToSearchValue(MetaFields(name), kwargs[name]).v
                      [] name = "doc_id" -> NormalDocId(doc_id)
                      [] OTHER -> rank]
       IN  IF failing = {}
           THEN /\ doc' = [dict |-> d,
                           assigned |-> [name \in AttrNames |->
                                            IF name \in MetaFieldNames THEN kwargs[name]
                                            ELSE d[name]]]
                /\ ret' = Ret("doc", 1)
           ELSE /\ \E name \in failing :
                      ret' = Ret(ToSearchValue(MetaFields(name), kwargs[name]).err, name)
                /\ UNCHANGED doc
    /\ DocFrame

\* doc.<name> = val; the value of the last assignment that succeeded is
\* remembered in assigned
SetAttr(name, val) ==
    /\ doc # NoDocument
    /\ LET Set(r) ==
               IF r.err # ""
               THEN /\ ret' = Ret(r.err, name)
                    /\ doc' = [doc EXCEPT !.dict = r.dict]
               ELSE /\ ret' = Ret("none", 0)
                    /\ doc' = [dict |-> r.dict,
                               assigned |-> [doc.assigned EXCEPT ![name] = val]]
       IN  Set(SetAttrOf(doc.dict, name, val))
    /\ DocFrame

\* doc.<name>
GetAttr(name) ==
    /\ doc # NoDocument
    /\ ret' = Ret("attr", [name |-> name, got |-> GetAttrOf(doc.dict, name)])
    /\ UNCHANGED doc
    /\ DocFrame

NextDoc ==
    \/ \E kwargs \in [MetaFieldNames -> AttrValues], doc_id \in DocIdInputs,
          rank \in RankInputs : DocInit(kwargs, doc_id, rank)
    \/ \E name \in AttrNames, val \in AttrValues : SetAttr(name, val)
    \/ \E name \in AttrNames : GetAttr(name)

SpecDoc == InitQ /\ [][NextDoc]_vars

-----------------------------------------------------------------------------
(* Properties of documents *)

\* C19: once the document is constructed, and after any assignments, the
\* instance holds for every declared field to_search_value of the value last
\* assigned with success, a read of the field gives to_python of what is
\* held, and doc_id and _rank are held and read as they were assigned.
C19_StoredIsSearchValue ==
    doc # NoDocument =>
        /\ \A name \in MetaFieldNames :
              LET r == ToSearchValue(MetaFields(name), doc.assigned[name])
              IN  r.err = "" /\ doc.dict[name] = r.v
        /\ \A name \in PlainNames : doc.dict[name] = doc.assigned[name]
        /\ ret.kind = "attr" =>
              ret.val.got =
                 IF ret.val.name \in MetaFieldNames
                 THEN ToPython(MetaFields(ret.val.name),
                               ToSearchValue(MetaFields(ret.val.name),
                                             doc.assigned[ret.val.name]).v)
                 ELSE Returns(doc.assigned[ret.val.name])

\* foo was assigned None: the instance holds the none_value text and the read
\* gives None
C19_Witness ==
    /\ doc # NoDocument
    /\ doc.assigned["foo"] = NoneV
    /\ doc.dict["foo"] = StrV("___NONE___")
    /\ doc.dict["bar"] = DateV(2012, 8, 3)
    /\ doc.dict["doc_id"] = StrV("5")
    /\ ret = Ret("attr", [name |-> "foo", got |-> Returns(NoneV)])

ConversionErrors == {"FieldError", "ValueError", "TypeError", "AttributeError"}

\* C20: an assignment to a declared field whose conversion fails raises the
\* conversion's exception and leaves every attribute of the document as it
\* was: FieldError for None on the required field n, ValueError for a number
\* out of the range of n, TypeError for a date on n and for a number or an
\* offset-aware datetime on the DateField bar.
C20_FailedAssignmentKeepsDocument ==
    [][\A name \in MetaFieldNames, val \in AttrValues :
          (/\ doc # NoDocument
           /\ ToSearchValue(MetaFields(name), val).err # ""
           /\ SetAttr(name, val)) =>
              /\ ret' = Ret(ToSearchValue(MetaFields(name), val).err, name)
              /\ ret'.kind \in ConversionErrors
              /\ doc' = doc
              /\ (name = "n" /\ val = NoneV) => ret'.kind = "FieldError"
              /\ (name = "n" /\ val = IntV(5)) => ret'.kind = "ValueError"
              /\ (name = "n" /\ val.t \in {"date", "aware"}) => ret'.kind = "TypeError"
              /\ (name = "bar" /\ val.t \in {"int", "aware"}) => ret'.kind = "TypeError"]_vars

\* the out-of-range assignment doc.n = 5 raised, and n still holds 3
C20_Witness ==
    /\ doc # NoDocument
    /\ ret = Ret("ValueError", "n")
    /\ doc.dict["n"] = IntV(3)
    /\ doc.dict["bar"] = DateV(2012, 8, 3)

-----------------------------------------------------------------------------
(* search.django.utils: the indexing flag and its context managers *)

MaxDepth == 3
MaxThreadDepth == 2

ManagerNames == {"disable_indexing", "enable_indexing"}

\* indexing_is_enabled() called by thread t: the thread's _is_enabled, or the
\* setting when the thread never set it
IndexingIsEnabled(st, t) == IF st[t] = Unset THEN settings ELSE st[t][1]

\* _disable() and _enable() called by thread t
Disable(st, t) == [st EXCEPT ![t] = Attr(FALSE)]
Enable(st, t) == [st EXCEPT ![t] = Attr(TRUE)]

\* what the manager switches the flag to: DisableIndexing calls _disable,
\* EnableIndexing calls _enable
Switch(st, t, name) ==
    IF name = "disable_indexing" THEN Disable(st, t) ELSE Enable(st, t)

\* DisableIndexing.__call__ and EnableIndexing.__call__
ManagerCall(ms, st, t, name) ==
    [managers |-> [ms EXCEPT ![name] = Attr(IndexingIsEnabled(st, t))],
     status |-> Switch(st, t, name)]

\* DisableIndexing.__enter__ and EnableIndexing.__enter__
ManagerEnter(ms, st, t, name) ==
    [managers |-> IF ms[name] = Unset
                  THEN [ms EXCEPT ![name] = Attr(IndexingIsEnabled(st, t))]
                  ELSE ms,
     status |-> Switch(st, t, name)]

\* DisableIndexing.__exit__ and EnableIndexing.__exit__
ManagerExit(ms, st, t, name) ==
    [managers |-> ms,
     status |-> IF ms[name] = Attr(TRUE) THEN Enable(st, t) ELSE Disable(st, t)]

\* the value a block of the manager stands for
BlockValue(name) == name = "enable_indexing"

Last(seq) == seq[Len(seq)]
Front(seq) == SubSeq(seq, 1, Len(seq) - 1)

FlagFrame == UNCHANGED <<core, settings, registry, batch>>

\* thread t runs the header of `with disable_indexing():` or of
\* `with enable_indexing():`: the manager is called, then entered. The block
\* records what indexing_is_enabled() gave just before, and every open block
\* of the same manager records which thread called the manager again.
With(t, name) ==
    /\ Len(scopes[t]) < MaxDepth
    /\ LET Step(c, before) ==
               LET e == ManagerEnter(c.managers, c.status, t, name)
               IN  /\ managers' = e.managers
                   /\ status' = e.status
                   /\ scopes' =
                        [u \in Threads |->
                           LET marked == [i \in 1..Len(scopes[u]) |->
                                            IF scopes[u][i].mgr = name
                                            THEN [scopes[u][i] EXCEPT !.reentered = @ \cup {t}]
                                            ELSE scopes[u][i]]
                           IN  IF u = t
                               THEN Append(marked, [mgr |-> name, before |-> before,
                                                    reentered |-> {}])
                               ELSE marked]
       IN  Step(ManagerCall(managers, status, t, name), IndexingIsEnabled(status, t))
    /\ UNCHANGED exited
    /\ FlagFrame

\* thread t leaves its innermost block: __exit__ runs, and the thread records
\* what indexing_is_enabled() gives just after
Leave(t) ==
    /\ scopes[t] # <<>>
    /\ LET Step(x, block) ==
               /\ managers' = x.managers
               /\ status' = x.status
               /\ exited' = [exited EXCEPT ![t] =
                               <<[mgr |-> block.mgr, before |-> block.before,
                                  after |-> IndexingIsEnabled(x.status, t),
                                  reentered |-> block.reentered]>>]
       IN  Step(ManagerExit(managers, status, t, Last(scopes[t]).mgr), Last(scopes[t]))
    /\ scopes' = [scopes EXCEPT ![t] = Front(scopes[t])]
    /\ FlagFrame

InitScopes ==
    /\ qheap = <<>>
    /\ queries = <<>>
    /\ sqs = <<>>
    /\ index = <<>>
    /\ searches = 0
    /\ lastSearch = NoSearch
    /\ ret = Ret("none", 0)
    /\ field = NoField
    /\ doc = NoDocument
    /\ \E enabled_by_default \in BOOLEAN : InitFlag(enabled_by_default)
    /\ InitRegistry
    /\ InitBatch({}, {})

\* one thread nesting blocks
NextScopes ==
    \/ \E name \in ManagerNames : With(1, name)
    \/ Leave(1)

SpecScopes == InitScopes /\ [][NextScopes]_vars

\* two threads, each nesting blocks, in any interleaving of the block headers
\* and block exits
NextThreads ==
    \/ \E t \in Threads, name \in ManagerNames :
          Len(scopes[t]) < MaxThreadDepth /\ With(t, name)
    \/ \E t \in Threads : Leave(t)

SpecThreads == InitScopes /\ [][NextThreads]_vars

-----------------------------------------------------------------------------
(* Properties of the indexing flag *)

\* C21: in one thread, for any nesting of `with disable_indexing():` and
\* `with enable_indexing():` blocks, indexing_is_enabled() after a block is
\* left equals what it was just before the block was entered, and inside a
\* block (outside any block nested in it) it is the block's value.
C21_ScopesRestore ==
    /\ exited[1] # <<>> => exited[1][1].after = exited[1][1].before
    /\ scopes[1] # <<>> =>
          IndexingIsEnabled(status, 1) = BlockValue(Last(scopes[1]).mgr)

\* what does hold, for any number of threads: a block restores the flag
\* unless its manager was called again while the block was open
RestoredUnlessReentered ==
    \A t \in Threads :
        (exited[t] # <<>> /\ exited[t][1].reentered = {}) =>
            exited[t][1].after = exited[t][1].before

\* C29: with two threads entering and leaving blocks in any interleaving,
\* indexing_is_enabled() of a thread after it leaves a block equals what it
\* was in that thread just before it entered the block, whatever the other
\* thread does. Stated for the blocks during which the thread itself did not
\* call the block's manager again, so that only the other thread's blocks
\* can bear on what is restored.
C29_ThreadsRestore ==
    \A t \in Threads :
        (exited[t] # <<>> /\ t \notin exited[t][1].reentered) =>
            exited[t][1].after = exited[t][1].before

-----------------------------------------------------------------------------
(* search.django.registry and the @searchable decorator *)

DocumentClasses == {"FooDocument", "OtherDocument"}
IndexNames == {"", "things"}
Ranks == {"", "name"}

\* the tuple (index_name, document_class, rank)
Meta(index_name, document_class, rank) ==
    [index_name |-> index_name, document_class |-> document_class, rank |-> rank]

\* a registry that stores the new tuple before it compares the classes
SetItemStoresFirst(reg, model_class, meta) ==
    [err |-> IF reg[model_class] # Unset
                /\ reg[model_class][1].document_class # meta.document_class
             THEN "RegisterError" ELSE "",
     registry |-> [reg EXCEPT ![model_class] = Attr(meta)]]

\* __Registry.__setitem__: dict.setdefault stores meta only when the model
\* has no entry, and gives the entry the model has then
SetItem(reg, model_class, meta) ==
    LET stored == IF reg[model_class] = Unset
                  THEN [reg EXCEPT ![model_class] = Attr(meta)]
                  ELSE reg
        _meta == stored[model_class][1]
    IN  [err |-> IF _meta.document_class # meta.document_class
                 THEN "RegisterError" ELSE "",
         registry |-> stored]

\* get_default_index_name
GetDefaultIndexName(model_class) == "tests_" \o model_class

\* @searchable(document_class, index_name, rank) applied to a model class:
\* the index is named index_name or, without one, by the model; the tuple is
\* then registered
Searchable(model_class, document_class, index_name, rank) ==
    /\ LET Step(r) ==
               /\ registry' = r.registry
               /\ ret' = Ret(IF r.err # "" THEN r.err ELSE "registered", model_class)
       IN  Step(SetItem(registry, model_class,
                        Meta(IF index_name = "" THEN GetDefaultIndexName(model_class)
                             ELSE index_name,
                             document_class, rank)))
    /\ UNCHANGED <<qheap, queries, sqs, index, searches, lastSearch, field, doc, flag, batch>>

NextRegistry ==
    \E model_class \in Models, document_class \in DocumentClasses,
       index_name \in IndexNames, rank \in Ranks :
        Searchable(model_class, document_class, index_name, rank)

SpecRegistry == InitQ /\ [][NextRegistry]_vars

-----------------------------------------------------------------------------
(* Properties of the registry *)

-----------------------------------------------------------------------------
(* Index.get_range, Index.delete and Index.purge (search/indexes.py), and   *)
(* the deferred tasks of search/django/tasks.py. A document id is modelled  *)
(* by its place in the platform's order of ids.                             *)

MaxIds == 6
MaxTaskIds == 4
\* the number of documents one get_range call returns when no limit is given
\* (100 on the platform)
GetRangeLimit == 2
MaxRunning == 2

RETRIEVE_BATCH_SIZE == 500

Ids == 1..MaxIds
TaskIds == 1..MaxTaskIds

\* the ids of a set, in the platform's order
RECURSIVE SortedIds(_)
SortedIds(S) ==
    IF S = {} THEN <<>>
    ELSE LET lo == CHOOSE x \in S : \A y \in S : x <= y
         IN  <<lo>> \o SortedIds(S \ {lo})

Range(seq) == {seq[i] : i \in 1..Len(seq)}

\* Index.get_range(ids_only=True, start_id=, include_start_object=, limit=):
\* the ids from start_id on, in order, at most limit of them
GetRange(docs, start_id, include_start_object, limit) ==
    LET from == {d \in docs : \/ start_id.none
                              \/ d > start_id.n
                              \/ include_start_object /\ d = start_id.n}
        ids == SortedIds(from)
    IN  SubSeq(ids, 1, Min2(limit, Len(ids)))

\* Index.delete(doc_ids)
Delete(docs, doc_ids) == docs \ Range(doc_ids)

\* a loop body that fetches the next page first and then deletes it
PurgeBodyDeletesNextPage(docs, doc_ids) ==
    LET next == GetRange(docs, Some(Last(doc_ids)), FALSE, GetRangeLimit)
    IN  [documents |-> Delete(docs, next), doc_ids |-> next]

\* the body of the loop of Index.purge
PurgeBody(docs, doc_ids) ==
    LET deleted == Delete(docs, doc_ids)
    IN  [documents |-> deleted,
         doc_ids |-> GetRange(deleted, Some(Last(doc_ids)), FALSE, GetRangeLimit)]

PurgeFrame == UNCHANGED <<core, flag, registry, datastore, deferred, running, fetched>>

\* index.purge() is called: the first page of ids is fetched
PurgeStart ==
    /\ purging.pc = "idle"
    /\ purging' = [pc |-> "loop",
                   doc_ids |-> GetRange(documents, Nil, TRUE, GetRangeLimit),
                   calls |-> 1]
    /\ UNCHANGED documents
    /\ PurgeFrame

\* `while doc_ids:` holds: the page is deleted and the next one fetched
PurgeStep ==
    /\ purging.pc = "loop"
    /\ purging.doc_ids # <<>>
    /\ LET Step(b) ==
               /\ documents' = b.documents
               /\ purging' = [pc |-> "loop", doc_ids |-> b.doc_ids,
                              calls |-> purging.calls + 1]
       IN  Step(PurgeBody(documents, purging.doc_ids))
    /\ PurgeFrame

\* `while doc_ids:` fails: purge returns
PurgeEnd ==
    /\ purging.pc = "loop"
    /\ purging.doc_ids = <<>>
    /\ purging' = [purging EXCEPT !.pc = "done"]
    /\ UNCHANGED documents
    /\ PurgeFrame

InitPurge ==
    /\ qheap = <<>>
    /\ queries = <<>>
    /\ sqs = <<>>
    /\ index = <<>>
    /\ searches = 0
    /\ lastSearch = NoSearch
    /\ ret = Ret("none", 0)
    /\ field = NoField
    /\ doc = NoDocument
    /\ InitFlag(TRUE)
    /\ InitRegistry
    /\ \E docs \in SUBSET Ids : InitBatch(docs, {})

NextPurge == PurgeStart \/ PurgeStep \/ PurgeEnd

\* a call that has started runs on: nothing else runs in its thread
SpecPurge == InitPurge /\ [][NextPurge]_vars /\ WF_vars(NextPurge)

-----------------------------------------------------------------------------
(* Properties of Index.purge *)

\* C23: with no other writer, Index.purge() returns for every index, and
\* when it has returned the index holds no document, also when the index
\* held more documents than one get_range call returns.
C23_PurgeEmpties ==
    /\ <>(purging.pc = "done")
    /\ [](purging.pc = "done" => documents = {})

\* purge has returned after four get_range calls: three pages were deleted
C23_Witness ==
    /\ purging.pc = "done"
    /\ purging.calls = 4
    /\ documents = {}

-----------------------------------------------------------------------------
(* search.django.tasks: purge_index_for_model and                           *)
(* remove_orphaned_docs_for_app_model, run by the deferred library          *)

TaskNames == {"purge_index_for_model", "remove_orphaned_docs_for_app_model"}
BatchSizeInputs == {Nil, Some(1), Some(2)}

Task(fn, start_id, batch_size) ==
    [fn |-> fn, start_id |-> start_id, batch_size |-> batch_size]

\* batch_size or RETRIEVE_BATCH_SIZE; the default of the parameter of
\* remove_orphaned_docs_for_app_model is the same number
BatchSize(task) == OrElse(task.batch_size, RETRIEVE_BATCH_SIZE)

\* the ids the invocation fetches: purge_index_for_model from the start of
\* the index, remove_orphaned_docs_for_app_model after start_id
TaskGetRange(docs, task) ==
    IF task.fn = "purge_index_for_model"
    THEN GetRange(docs, Nil, TRUE, BatchSize(task))
    ELSE GetRange(docs, task.start_id, FALSE, BatchSize(task))

\* an invocation that defers its follow-up whatever it fetched
FollowUpAlways(task, doc_ids) ==
    <<Task(task.fn,
           IF task.fn = "purge_index_for_model" \/ doc_ids = <<>> THEN task.start_id
           ELSE Some(Last(doc_ids)),
           Some(BatchSize(task)))>>

\* the deferred.defer call of the invocation, if it makes one
FollowUp(task, doc_ids) ==
    IF doc_ids = <<>> THEN <<>>
    ELSE IF task.fn = "purge_index_for_model"
    THEN <<Task(task.fn, Nil, Some(BatchSize(task)))>>
    ELSE <<Task(task.fn, Some(Last(doc_ids)), Some(BatchSize(task)))>>

\* batch_delete_docs: every id is deleted, DELETE_BATCH_SIZE at a time
BatchDeleteDocs(docs, doc_ids) == Delete(docs, doc_ids)

\* the ids of the batch with no entity in the datastore
OrphanDocIds(doc_ids, pks) == SortedIds(Range(doc_ids) \ pks)

Remove(seq, i) == SubSeq(seq, 1, i - 1) \o SubSeq(seq, i + 1, Len(seq))

TaskFrame == UNCHANGED <<core, flag, registry, datastore, purging>>

\* the first invocation is deferred: by purge_indexes or
\* remove_orphaned_docs (no batch_size), or with a batch_size
Defer(fn, batch_size) ==
    /\ fetched.op = "none"
    /\ deferred' = <<Task(fn, Nil, batch_size)>>
    /\ fetched' = [op |-> fn, initial |-> documents, batches |-> <<>>]
    /\ UNCHANGED <<documents, running>>
    /\ TaskFrame

\* the deferred task i starts: it fetches its batch and, with a batch that
\* is not empty, defers the next task before it goes on
TaskFetch(i) ==
    /\ i \in 1..Len(deferred)
    /\ Len(running) < MaxRunning
    /\ LET Step(task, doc_ids) ==
               /\ deferred' = Remove(deferred, i) \o FollowUp(task, doc_ids)
               /\ running' = IF doc_ids = <<>> THEN running
                             ELSE Append(running, [fn |-> task.fn, doc_ids |-> doc_ids])
               /\ fetched' = [fetched EXCEPT !.batches = Append(@, doc_ids)]
       IN  Step(deferred[i], TaskGetRange(documents, deferred[i]))
    /\ UNCHANGED documents
    /\ TaskFrame

\* the invocation j goes on after its defer: purge_index_for_model deletes
\* the batch, remove_orphaned_docs_for_app_model the orphans of the batch
TaskDelete(j) ==
    /\ j \in 1..Len(running)
    /\ documents' =
          IF running[j].fn = "purge_index_for_model"
          THEN BatchDeleteDocs(documents, running[j].doc_ids)
          ELSE IF OrphanDocIds(running[j].doc_ids, datastore) = <<>> THEN documents
          ELSE BatchDeleteDocs(documents, OrphanDocIds(running[j].doc_ids, datastore))
    /\ running' = Remove(running, j)
    /\ UNCHANGED <<deferred, fetched>>
    /\ TaskFrame

InitTasks ==
    /\ qheap = <<>>
    /\ queries = <<>>
    /\ sqs = <<>>
    /\ index = <<>>
    /\ searches = 0
    /\ lastSearch = NoSearch
    /\ ret = Ret("none", 0)
    /\ field = NoField
    /\ doc = NoDocument
    /\ InitFlag(TRUE)
    /\ InitRegistry
    /\ \E docs \in SUBSET TaskIds, pks \in SUBSET TaskIds : InitBatch(docs, pks)

NextTasks ==
    \/ \E fn \in TaskNames, batch_size \in BatchSizeInputs : Defer(fn, batch_size)
    \/ \E i \in 1..MaxRunning : TaskFetch(i)
    \/ \E j \in 1..MaxRunning : TaskDelete(j)

\* the task queue runs every deferred task, and an invocation runs to its end
SpecTasks == InitTasks /\ [][NextTasks]_vars /\ WF_vars(NextTasks)

-----------------------------------------------------------------------------
(* Properties of the deferred tasks *)

RECURSIVE Concat(_)
Concat(seqs) == IF seqs = <<>> THEN <<>> ELSE Head(seqs) \o Concat(Tail(seqs))

ChainStopped == fetched.op # "none" /\ deferred = <<>> /\ running = <<>>

\* C24 as stated: every invocation fetches at most batch_size ids, defers
\* no follow-up after an empty batch, and after a batch that is not empty
\* defers exactly one follow-up whose start_id is the last id of the batch.
C24_FollowUpCarriesCursor ==
    [][\A i \in 1..MaxRunning :
          TaskFetch(i) =>
              LET page == Last(fetched'.batches)
              IN  /\ Len(page) <= BatchSize(deferred[i])
                  /\ page = <<>> => Len(deferred') = Len(deferred) - 1
                  /\ page # <<>> =>
                        /\ Len(deferred') = Len(deferred)
                        /\ Last(deferred').start_id = Some(Last(page))]_vars

\* C24: every invocation fetches at most batch_size ids, defers no follow-up
\* after an empty batch, and after a batch that is not empty defers exactly
\* one follow-up of the same function and batch size. The follow-up of
\* remove_orphaned_docs_for_app_model carries start_id = the last id of the
\* batch; that of purge_index_for_model carries no start_id and fetches from
\* the start of the index again. The chain stops; by then
\* remove_orphaned_docs_for_app_model has fetched every id of the index once,
\* in order, and left the documents that have an entity, and
\* purge_index_for_model has fetched every id and left no document.
C24_OneFollowUp ==
    /\ [][\A i \in 1..MaxRunning :
             TaskFetch(i) =>
                 LET page == Last(fetched'.batches)
                     task == deferred[i]
                 IN  /\ Len(page) <= BatchSize(task)
                     /\ page = <<>> => deferred' = Remove(deferred, i)
                     /\ page # <<>> =>
                           deferred' = Remove(deferred, i) \o
                              <<Task(task.fn,
                                     IF task.fn = "purge_index_for_model" THEN Nil
                                     ELSE Some(Last(page)),
                                     Some(BatchSize(task)))>>]_vars
    /\ <>ChainStopped
    /\ [](ChainStopped =>
            IF fetched.op = "purge_index_for_model"
            THEN /\ documents = {}
                 /\ Range(Concat(fetched.batches)) = fetched.initial
            ELSE /\ Concat(fetched.batches) = SortedIds(fetched.initial)
                 /\ documents = fetched.initial \cap datastore)

\* the orphan chain has stopped after two batches of two ids and an empty
\* one, and has deleted the two orphans
C24_Witness ==
    /\ ChainStopped
    /\ fetched.op = "remove_orphaned_docs_for_app_model"
    /\ fetched.batches = <<<<1, 2>>, <<3, 4>>, <<>>>>
    /\ datastore = {2, 3}
    /\ documents = {2, 3}

-----------------------------------------------------------------------------
(* search.django.utils.get_ascii_string_rank. A unicode string is the       *)
(* sequence of its code points.                                             *)

\* c.isalpha() for the characters of the model
IsAlpha(c) == c \in 65..90 \/ c \in 97..122 \/ c \in {243, 322}

\* unidecode of one character: ASCII is kept, a letter with a diacritic
\* becomes its base letter
UnidecodeChar(c) ==
    CASE c = 322 -> <<108>>
      [] c = 243 -> <<111>>
      [] OTHER -> <<c>>

\* unidecode(string)
RECURSIVE Unidecode(_)
Unidecode(string) ==
    IF string = <<>> THEN <<>>
    ELSE UnidecodeChar(Head(string)) \o Unidecode(Tail(string))

\* "".join(str(o).zfill(2) for o in ords)
RECURSIVE Joinable(_)
Joinable(ords) ==
    IF ords = <<>> THEN ""
    ELSE ZeroPad(Head(ords), 2) \o Joinable(Tail(ords))

\* get_ascii_string_rank(string, max_digits), with text_unidecode installed
GetAsciiStringRank(string, max_digits) ==
    LET smallest_ord == 65
        punctuation_ord == smallest_ord - 1
        offset == smallest_ord - 11
        get_ord(c) == (IF IsAlpha(c) THEN c ELSE punctuation_ord) - offset
        padding == [i \in 1..max_digits |-> punctuation_ord]
        padded == Unidecode(string) \o padding
        ords == [i \in 1..Len(padded) |-> get_ord(padded[i])]
        joined == Joinable(ords)
    IN  DigitsToNat(SubSeq(joined, 1, Min2(max_digits, Len(joined))))

\* s1 < s2 for two strings: by code points, a proper prefix first
RECURSIVE StrLess(_, _)
StrLess(s1, s2) ==
    IF s2 = <<>> THEN FALSE
    ELSE IF s1 = <<>> THEN TRUE
    ELSE IF Head(s1) # Head(s2) THEN Head(s1) < Head(s2)
    ELSE StrLess(Tail(s1), Tail(s2))

MaxRankLen == 2

\* ' ', 'A', 'Z', '_', 'a', 'z' and the Polish l with stroke
RankChars == {32, 65, 90, 95, 97, 122, 322}

\* every string of up to MaxRankLen characters, and longer words: 'aaaaa',
\* 'aaaab', 'aaaaz', 'Python', 'Pythonic' and 'olowek' with its diacritics
RankStrings ==
    UNION {[1..n -> RankChars] : n \in 0..MaxRankLen}
    \cup {<<97, 97, 97, 97, 97>>, <<97, 97, 97, 97, 98>>, <<97, 97, 97, 97, 122>>,
          <<80, 121, 116, 104, 111, 110>>,
          <<80, 121, 116, 104, 111, 110, 105, 99>>,
          <<111, 322, 243, 119, 101, 107>>}

InitRank ==
    /\ qheap = <<>>
    /\ queries = <<>>
    /\ sqs = <<>>
    /\ index = <<>>
    /\ searches = 0
    /\ lastSearch = NoSearch
    /\ ret \in {Ret("strings", <<s1, s2>>) : s1, s2 \in RankStrings}
    /\ field = NoField
    /\ doc = NoDocument
    /\ InitDjango

\* ranks = [get_ascii_string_rank(s) for s in strings]
GetRanks ==
    /\ ret.kind = "strings"
    /\ ret' = Ret("ranks", [strings |-> ret.val,
                            ranks |-> <<GetAsciiStringRank(ret.val[1], 9),
                                        GetAsciiStringRank(ret.val[2], 9)>>])
    /\ UNCHANGED <<qheap, queries, sqs, index, searches, lastSearch, field, doc, django>>

NextRank == GetRanks

SpecRank == InitRank /\ [][NextRank]_vars

-----------------------------------------------------------------------------
(* Properties of the rank of a string *)

\* C25: whenever the unidecoded s1 sorts before the unidecoded s2, the rank
\* of s1 is at most the rank of s2.
C25_RankKeepsOrder ==
    ret.kind = "ranks" =>
        (StrLess(Unidecode(ret.val.strings[1]), Unidecode(ret.val.strings[2]))
            => ret.val.ranks[1] <= ret.val.ranks[2])

\* the characters that are letters or sort before every letter
Wordlike(string) == \A i \in 1..Len(string) : IsAlpha(string[i]) \/ string[i] < 65

\* what does hold: the order is kept between strings of letters and of
\* characters that sort before the letters
RankKeepsOrderOfWords ==
    (/\ ret.kind = "ranks"
     /\ Wordlike(Unidecode(ret.val.strings[1]))
     /\ Wordlike(Unidecode(ret.val.strings[2]))) =>
        (StrLess(Unidecode(ret.val.strings[1]), Unidecode(ret.val.strings[2]))
            => ret.val.ranks[1] <= ret.val.ranks[2])

-----------------------------------------------------------------------------
(* Properties of an executed SearchQuery *)

\* C26: over any sequence of count(), len() and iteration calls, an instance
\* whose _results_response is set has _number_found set too, neither changes
\* in any later step, and no later count() or next() of the instance issues
\* a platform search; so every instance issues at most one search.
C26_ExecutesOnce ==
    [][\A s \in SQs :
          sqs[s].results_response.set =>
              /\ ~sqs[s].number_found.none
              /\ sqs'[s].results_response = sqs[s].results_response
              /\ sqs'[s].number_found = sqs[s].number_found
              /\ (Count(s) \/ GenNext(s)) =>
                    searches' = searches /\ lastSearch' = lastSearch]_vars

\* the only instance was iterated to the end and then counted: one search
C26_Witness ==
    /\ Len(sqs) = 1
    /\ Len(index) = 2
    /\ sqs[1].gen.state = "done"
    /\ Len(sqs[1].results_cache.items) = 2
    /\ ret = Ret("int", 2)
    /\ searches = 1

\* C27: the first iteration of a query with no window, carried to its end
\* after count() had executed the query, has yielded every match (the index
\* holds fewer documents than the default limit). With one instance and one
\* search with limit 1, the search was the counting execution.
C27_CountKeepsIteration ==
    (/\ Len(sqs) = 1
     /\ searches = 1
     /\ lastSearch.offset = 0 /\ lastSearch.limit = 1
     /\ sqs[1].gen.state = "done") =>
        sqs[1].results_cache.items = Results(sqs[1], index)

\* what does hold: when the iteration itself executed the query, it yields
\* every match
IterationAloneYieldsAll ==
    (/\ Len(sqs) = 1
     /\ searches = 1
     /\ lastSearch.offset = 0 /\ lastSearch.limit = MAX_LIMIT
     /\ sqs[1].gen.state = "done") =>
        sqs[1].results_cache.items = Results(sqs[1], index)

\* the results of the instance: those of its response, or, before it has
\* executed, those the platform has for its window
Complete(s) ==
    IF sqs[s].results_response.set
    THEN Results(sqs[s], sqs[s].results_response.results)
    ELSE Results(sqs[s], PlatformSearch(index, sqs[s].offset, sqs[s].limit,
                                        CursorOption(sqs[s])).results)

\* C28: an iterator made by a second or later iter(sq), once exhausted, has
\* yielded the complete result sequence of the query, whether or not the
\* first iterator was advanced to its end before.
C28_SecondIterationIsComplete ==
    \A s \in SQs : \A i \in 1..Len(sqs[s].replays) :
        sqs[s].replays[i].done => sqs[s].replays[i].yielded = Complete(s)

-----------------------------------------------------------------------------
(* Properties of a field read from a search result *)

\* C30: for every field type, a field that held None when it was indexed,
\* the index holding the field's none_value(), reads as None on the document
\* made of the search result.
C30_NoneReadsAsNone ==
    (/\ field.at = "found"
     /\ field.value = NoneV
     /\ field.stored = Returns(NoneValue(field.f))) =>
        field.read = Returns(NoneV)

\* what does hold: the same for every field type but BooleanField
NoneReadsAsNoneUnlessBoolean ==
    field.f.cls # "BooleanField" => C30_NoneReadsAsNone

====
